---- MODULE Spec2Model ----
(***************************************************************************)
(* A model of the MKint pass (mkint/mkint.cpp): taint marking and          *)
(* propagation, the iterative interprocedural range analysis and the       *)
(* error marking, run on small IR modules.                                 *)
(*                                                                         *)
(* IR values (instructions, arguments, globals, constants, blocks,         *)
(* functions) are named by strings.  An interval is the pair of bounds of  *)
(* llvm::ConstantRange: [bw, lo, hi] stands for the wrapped half-open      *)
(* range [lo, hi) of bw-bit integers; lo = hi = 2^bw - 1 is the full set   *)
(* and lo = hi = 0 the empty set.  A default-constructed crange has bw = 0 *)
(* (it is both full and empty).  The interval operations follow the        *)
(* NDEBUG build of LLVM 14 that the tests' opt-14 is.                       *)
(***************************************************************************)
EXTENDS Integers, Sequences, FiniteSets, TLC

\* ------------------------------------------------------------------ bounds
\* Largest value of the integer parameter k of the input modules (a compare
\* constant, a call argument, an array index).
MaxK == 3

\* ------------------------------------------------------- interval lattice
RECURSIVE Pow2(_)
Pow2(n) == IF n = 0 THEN 1 ELSE 2 * Pow2(n - 1)

Wrap(x, bw) == x % Pow2(bw)

\* two's complement reading of a bw-bit value
Sgn(x, bw) == IF bw > 0 /\ x >= Pow2(bw - 1) THEN x - Pow2(bw) ELSE x

UMaxVal(bw) == Pow2(bw) - 1
SMinVal(bw) == IF bw = 0 THEN 0 ELSE Pow2(bw - 1)
SMaxVal(bw) == IF bw = 0 THEN 0 ELSE Pow2(bw - 1) - 1

CR(bw, lo, hi) == [bw |-> bw, lo |-> lo, hi |-> hi]
Full(bw) == CR(bw, UMaxVal(bw), UMaxVal(bw))
Empty(bw) == CR(bw, 0, 0)
Single(bw, v) == CR(bw, Wrap(v, bw), Wrap(v + 1, bw))
\* crange(): ConstantRange(0, true)
DefaultRange == Full(0)

IsFullSet(r) == r.lo = r.hi /\ r.lo = UMaxVal(r.bw)
IsEmptySet(r) == r.lo = r.hi /\ r.lo = 0
IsUpperWrapped(r) == r.lo > r.hi
IsWrappedSet(r) == r.lo > r.hi /\ r.hi # 0
IsSignWrappedSet(r) == Sgn(r.lo, r.bw) > Sgn(r.hi, r.bw) /\ r.hi # SMinVal(r.bw)
IsSingleElement(r) == r.hi = Wrap(r.lo + 1, r.bw) /\ r.bw > 0

\* the set of values an interval stands for
Contains(r, v) ==
    IF r.lo = r.hi THEN IsFullSet(r)
    ELSE IF r.lo < r.hi THEN r.lo <= v /\ v < r.hi
    ELSE v >= r.lo \/ v < r.hi
Gamma(r) == {v \in 0..UMaxVal(r.bw) : Contains(r, v)}

SizeStrictlySmaller(a, b) ==
    IF IsFullSet(a) THEN FALSE
    ELSE IF IsFullSet(b) THEN TRUE
    ELSE Wrap(a.hi - a.lo, a.bw) < Wrap(b.hi - b.lo, b.bw)

\* getPreferredRange(CR1, CR2, Smallest)
Preferred(a, b) == IF SizeStrictlySmaller(a, b) THEN a ELSE b

GetUnsignedMax(r) ==
    IF IsFullSet(r) \/ IsUpperWrapped(r) THEN UMaxVal(r.bw) ELSE Wrap(r.hi - 1, r.bw)
GetUnsignedMin(r) ==
    IF IsFullSet(r) \/ IsWrappedSet(r) THEN 0 ELSE r.lo
GetSignedMax(r) ==
    IF IsFullSet(r) \/ IsSignWrappedSet(r) THEN SMaxVal(r.bw) ELSE Wrap(r.hi - 1, r.bw)
GetSignedMin(r) ==
    IF IsFullSet(r) \/ IsSignWrappedSet(r) THEN SMinVal(r.bw) ELSE r.lo

GetNonEmpty(bw, lo, hi) == IF lo = hi THEN Full(bw) ELSE CR(bw, lo, hi)

Inverse(r) ==
    IF IsFullSet(r) THEN Empty(r.bw)
    ELSE IF IsEmptySet(r) THEN Full(r.bw)
    ELSE CR(r.bw, r.hi, r.lo)

\* ConstantRange::unionWith for a first operand that is upper-wrapped or a
\* pair of unwrapped operands
UnionOrdered(a, b) ==
    IF ~IsUpperWrapped(a) /\ ~IsUpperWrapped(b) THEN
        IF b.hi < a.lo \/ a.hi < b.lo
        THEN Preferred(CR(a.bw, a.lo, b.hi), CR(a.bw, b.lo, a.hi))
        ELSE LET L == IF b.lo < a.lo THEN b.lo ELSE a.lo
                 U == IF Wrap(b.hi - 1, a.bw) > Wrap(a.hi - 1, a.bw) THEN b.hi ELSE a.hi
             IN  IF L = 0 /\ U = 0 THEN Full(a.bw) ELSE CR(a.bw, L, U)
    ELSE IF ~IsUpperWrapped(b) THEN
        IF b.hi <= a.hi \/ b.lo >= a.lo THEN a
        ELSE IF b.lo <= a.hi /\ a.lo <= b.hi THEN Full(a.bw)
        ELSE IF a.hi < b.lo /\ b.hi < a.lo
             THEN Preferred(CR(a.bw, a.lo, b.hi), CR(a.bw, b.lo, a.hi))
        ELSE IF a.hi < b.lo /\ a.lo <= b.hi THEN CR(a.bw, b.lo, a.hi)
        ELSE CR(a.bw, a.lo, b.hi)
    ELSE
        IF b.lo <= a.hi \/ a.lo <= b.hi THEN Full(a.bw)
        ELSE CR(a.bw, IF b.lo < a.lo THEN b.lo ELSE a.lo,
                      IF b.hi > a.hi THEN b.hi ELSE a.hi)

\* a.unionWith(b); an operand of width 0 is empty and full at once, so the
\* first two tests return the other operand unchanged
UnionWith(a, b) ==
    IF IsFullSet(a) \/ IsEmptySet(b) THEN a
    ELSE IF IsFullSet(b) \/ IsEmptySet(a) THEN b
    ELSE IF ~IsUpperWrapped(a) /\ IsUpperWrapped(b) THEN UnionOrdered(b, a)
    ELSE UnionOrdered(a, b)

IntersectOrdered(a, b) ==
    IF ~IsUpperWrapped(a) /\ ~IsUpperWrapped(b) THEN
        IF a.lo < b.lo THEN
            IF a.hi <= b.lo THEN Empty(a.bw)
            ELSE IF a.hi < b.hi THEN CR(a.bw, b.lo, a.hi)
            ELSE b
        ELSE IF a.hi < b.hi THEN a
        ELSE IF a.lo < b.hi THEN CR(a.bw, a.lo, b.hi)
        ELSE Empty(a.bw)
    ELSE IF IsUpperWrapped(a) /\ ~IsUpperWrapped(b) THEN
        IF b.lo < a.hi THEN
            IF b.hi < a.hi THEN b
            ELSE IF b.hi <= a.lo THEN CR(a.bw, b.lo, a.hi)
            ELSE Preferred(a, b)
        ELSE IF b.lo < a.lo THEN
            IF b.hi <= a.lo THEN Empty(a.bw) ELSE CR(a.bw, a.lo, b.hi)
        ELSE b
    ELSE
        IF b.hi < a.hi THEN
            IF b.lo < a.hi THEN Preferred(a, b)
            ELSE IF b.lo < a.lo THEN CR(a.bw, a.lo, b.hi)
            ELSE b
        ELSE IF b.hi <= a.lo THEN
            IF b.lo < a.lo THEN a ELSE CR(a.bw, b.lo, a.hi)
        ELSE Preferred(a, b)

IntersectWith(a, b) ==
    IF IsEmptySet(a) \/ IsFullSet(b) THEN a
    ELSE IF IsEmptySet(b) \/ IsFullSet(a) THEN b
    ELSE IF ~IsUpperWrapped(a) /\ IsUpperWrapped(b) THEN IntersectOrdered(b, a)
    ELSE IntersectOrdered(a, b)

\* ConstantRange::add
AddRange(a, b) ==
    IF IsEmptySet(a) \/ IsEmptySet(b) THEN Empty(a.bw)
    ELSE IF IsFullSet(a) \/ IsFullSet(b) THEN Full(a.bw)
    ELSE LET nl == Wrap(a.lo + b.lo, a.bw)
             nu == Wrap(a.hi + b.hi - 1, a.bw)
             x == CR(a.bw, nl, nu)
         IN  IF nl = nu THEN Full(a.bw)
             ELSE IF SizeStrictlySmaller(x, a) \/ SizeStrictlySmaller(x, b)
                  THEN Full(a.bw)
             ELSE x

\* ICmp predicates
Preds == {"eq", "ne", "ult", "ule", "ugt", "uge", "slt", "sle", "sgt", "sge"}
SwappedPred(p) ==
    CASE p = "ult" -> "ugt" [] p = "ugt" -> "ult" [] p = "ule" -> "uge" [] p = "uge" -> "ule"
      [] p = "slt" -> "sgt" [] p = "sgt" -> "slt" [] p = "sle" -> "sge" [] p = "sge" -> "sle"
      [] OTHER -> p
InversePred(p) ==
    CASE p = "eq" -> "ne" [] p = "ne" -> "eq"
      [] p = "ult" -> "uge" [] p = "uge" -> "ult" [] p = "ugt" -> "ule" [] p = "ule" -> "ugt"
      [] p = "slt" -> "sge" [] p = "sge" -> "slt" [] p = "sgt" -> "sle" [] p = "sle" -> "sgt"

\* the comparison itself, on bw-bit values
Holds(p, x, y, bw) ==
    CASE p = "eq" -> x = y [] p = "ne" -> x # y
      [] p = "ult" -> x < y [] p = "ule" -> x <= y [] p = "ugt" -> x > y [] p = "uge" -> x >= y
      [] p = "slt" -> Sgn(x, bw) < Sgn(y, bw) [] p = "sle" -> Sgn(x, bw) <= Sgn(y, bw)
      [] p = "sgt" -> Sgn(x, bw) > Sgn(y, bw) [] p = "sge" -> Sgn(x, bw) >= Sgn(y, bw)

\* crange::cmpRegion() = ConstantRange::makeAllowedICmpRegion
CmpRegion(p, r) ==
    LET W == r.bw IN
    IF IsEmptySet(r) THEN r
    ELSE CASE p = "eq" -> r
      [] p = "ne" -> IF IsSingleElement(r) THEN CR(W, r.hi, r.lo) ELSE Full(W)
      [] p = "ult" -> IF GetUnsignedMax(r) = 0 THEN Empty(W) ELSE CR(W, 0, GetUnsignedMax(r))
      [] p = "slt" -> IF GetSignedMax(r) = SMinVal(W) THEN Empty(W)
                      ELSE CR(W, SMinVal(W), GetSignedMax(r))
      [] p = "ule" -> GetNonEmpty(W, 0, Wrap(GetUnsignedMax(r) + 1, W))
      [] p = "sle" -> GetNonEmpty(W, SMinVal(W), Wrap(GetSignedMax(r) + 1, W))
      [] p = "ugt" -> IF GetUnsignedMin(r) = UMaxVal(W) THEN Empty(W)
                      ELSE CR(W, Wrap(GetUnsignedMin(r) + 1, W), 0)
      [] p = "sgt" -> IF GetSignedMin(r) = SMaxVal(W) THEN Empty(W)
                      ELSE CR(W, Wrap(GetSignedMin(r) + 1, W), SMinVal(W))
      [] p = "uge" -> GetNonEmpty(W, GetUnsignedMin(r), 0)
      [] p = "sge" -> GetNonEmpty(W, GetSignedMin(r), SMinVal(W))

\* ---------------------------------------------------------------- the IR
\* Types are "void", "ptr" and the integer types "i1", "i8", "i16".
\* An instruction: op is its opcode, ty the type of its result, ops its
\* operand values, aux the ICmp predicate or the callee, tgt the successor
\* blocks of a terminator or the incoming blocks of a phi.  A switch has the
\* condition and then the case constants as ops, the default destination and
\* then the case successors as tgt.
Ins(op, ty, ops, aux, tgt) == [op |-> op, ty |-> ty, ops |-> ops, aux |-> aux, tgt |-> tgt]

\* A function: ret is its return type, args its arguments, blocks its basic
\* blocks (none: a declaration).
Fn(ret, args, blocks) == [ret |-> ret, args |-> args, blocks |-> blocks]

\* A global: an integer scalar ("int") or a one-dimensional integer array
\* ("arr") of element type ty, with its initializer.
Glob(kind, ty, init) == [kind |-> kind, ty |-> ty, init |-> init]

IsIntegerTy(t) == t \in {"i1", "i8", "i16"}
\* Type::getIntegerBitWidth() of an integer type
IntegerBitWidth(t) == CASE t = "i1" -> 1 [] t = "i8" -> 8 [] t = "i16" -> 16

EmptyMap == [x \in {} |-> 0]
Put(f, k, v) == [x \in DOMAIN f \cup {k} |-> IF x = k THEN v ELSE f[x]]
Has(f, k) == k \in DOMAIN f
Range(s) == {s[i] : i \in DOMAIN s}
AppendNew(s, x) == IF x \in Range(s) THEN s ELSE Append(s, x)

MKINT_SINKS ==
    [malloc |-> 1, __mkint_sink0 |-> 1, __mkint_sink1 |-> 2, xmalloc |-> 1,
     kmalloc |-> 1, kzalloc |-> 1, vmalloc |-> 1]

StartsWith(s, p) ==
    /\ Len(s) >= Len(p)
    /\ SubSeq(s, 1, Len(p)) = p

\* demangle(): __cxa_demangle reads a name that is no _Z-mangled symbol as an
\* encoded type, which succeeds for the one-letter builtin codes only
Demangle(name) ==
    CASE name = "v" -> "void" [] name = "i" -> "int" [] name = "c" -> "char"
      [] name = "f" -> "float" [] name = "d" -> "double" [] name = "l" -> "long"
      [] name = "s" -> "short" [] name = "b" -> "bool" [] name = "j" -> "unsigned int"
      [] OTHER -> name

is_taint_src(sv) ==
    LET name == Demangle(sv)
    IN  StartsWith(name, "sys_") \/ StartsWith(name, "__mkint_ann_")

\* ------------------------------------------------------- the input modules
Ret(v) == Ins("ret", "void", v, "", <<>>)
Br(b) == Ins("br", "void", <<>>, "", <<b>>)
CondBr(c, t, e) == Ins("condbr", "void", <<c>>, "", <<t, e>>)
Kname(k) == "k" \o ToString(k)
Switch(v, default, consts, dests) == Ins("switch", "void", <<v>> \o consts, "", <<default>> \o dests)

\* the integer constants the modules use, all of width 8
ModConsts ==
    [c \in {"c0", "c1", "c10", "c20"} \cup {Kname(k) : k \in 0..MaxK} |->
        CASE c = "c0" -> Single(8, 0) [] c = "c1" -> Single(8, 1)
          [] c = "c10" -> Single(8, 10) [] c = "c20" -> Single(8, 20)
          [] OTHER -> Single(8, CHOOSE k \in 0..MaxK : Kname(k) = c)]

Mod(funcs, fn, blk, ins, globals, glob, argty) ==
    [funcs |-> funcs, fn |-> fn, blk |-> blk, ins |-> ins, globals |-> globals,
     glob |-> glob, argty |-> argty, const |-> ModConsts]

\* declare ptr @kzalloc(i8)
\* void sys_foo(i8 x) { a = x + k; m = a + a; kzalloc(m); }
ModTaint(k) ==
    Mod(<<"kzalloc", "sys_foo">>,
        "kzalloc" :> Fn("ptr", <<"kzalloc.n">>, <<>>)
          @@ "sys_foo" :> Fn("void", <<"sys_foo.x">>, <<"foo.entry">>),
        "foo.entry" :> <<"foo.a", "foo.m", "foo.p", "foo.ret">>,
        "foo.a" :> Ins("add", "i8", <<"sys_foo.x", Kname(k)>>, "", <<>>)
          @@ "foo.m" :> Ins("add", "i8", <<"foo.a", "foo.a">>, "", <<>>)
          @@ "foo.p" :> Ins("call", "ptr", <<"foo.m">>, "kzalloc", <<>>)
          @@ "foo.ret" :> Ret(<<>>),
        <<>>, EmptyMap,
        "kzalloc.n" :> "i8" @@ "sys_foo.x" :> "i8")

\* declare ptr @kmalloc(i8)
\* void helper(i8 a) { s = a + k; kmalloc(s); }
\* void sys_bar(i8 y) { helper(y); }
ModHelper(k) ==
    Mod(<<"kmalloc", "helper", "sys_bar">>,
        "kmalloc" :> Fn("ptr", <<"kmalloc.n">>, <<>>)
          @@ "helper" :> Fn("void", <<"helper.a">>, <<"helper.entry">>)
          @@ "sys_bar" :> Fn("void", <<"sys_bar.y">>, <<"bar.entry">>),
        "helper.entry" :> <<"helper.s", "helper.q", "helper.ret">>
          @@ "bar.entry" :> <<"bar.call", "bar.ret">>,
        "helper.s" :> Ins("add", "i8", <<"helper.a", Kname(k)>>, "", <<>>)
          @@ "helper.q" :> Ins("call", "ptr", <<"helper.s">>, "kmalloc", <<>>)
          @@ "helper.ret" :> Ret(<<>>)
          @@ "bar.call" :> Ins("call", "void", <<"sys_bar.y">>, "helper", <<>>)
          @@ "bar.ret" :> Ret(<<>>),
        <<>>, EmptyMap,
        "kmalloc.n" :> "i8" @@ "helper.a" :> "i8" @@ "sys_bar.y" :> "i8")

\* @g = global i8 0;  declare ptr @kmalloc(i8)
\* void sys_st(i8 x) { g = x; }
\* i8 reader() { t = g; kmalloc(t); if (t >u k) return 1; else return 0; }
ModStore(k) ==
    Mod(<<"kmalloc", "sys_st", "reader">>,
        "kmalloc" :> Fn("ptr", <<"kmalloc.n">>, <<>>)
          @@ "sys_st" :> Fn("void", <<"sys_st.x">>, <<"st.entry">>)
          @@ "reader" :> Fn("i8", <<>>, <<"rd.entry", "rd.T", "rd.E">>),
        "st.entry" :> <<"st.store", "st.ret">>
          @@ "rd.entry" :> <<"rd.t", "rd.q", "rd.c", "rd.br">>
          @@ "rd.T" :> <<"rd.ret1">>
          @@ "rd.E" :> <<"rd.ret0">>,
        "st.store" :> Ins("store", "void", <<"sys_st.x", "@g">>, "", <<>>)
          @@ "st.ret" :> Ret(<<>>)
          @@ "rd.t" :> Ins("load", "i8", <<"@g">>, "", <<>>)
          @@ "rd.q" :> Ins("call", "ptr", <<"rd.t">>, "kmalloc", <<>>)
          @@ "rd.c" :> Ins("icmp", "i1", <<"rd.t", Kname(k)>>, "ugt", <<>>)
          @@ "rd.br" :> CondBr("rd.c", "rd.T", "rd.E")
          @@ "rd.ret1" :> Ret(<<"c1">>)
          @@ "rd.ret0" :> Ret(<<"c0">>),
        <<"@g">>, "@g" :> Glob("int", "i8", <<0>>),
        "kmalloc.n" :> "i8" @@ "sys_st.x" :> "i8")

\* i8 hh(i8 a) { if (a <s 10) return a; else return 0; }
\* i8 ff() { return hh(k) + hh(far); }        far = 20, or k again
\* calleeFirst: hh is defined before ff
ModBranch(k, calleeFirst, far) ==
    Mod(IF calleeFirst THEN <<"hh", "ff">> ELSE <<"ff", "hh">>,
        "hh" :> Fn("i8", <<"hh.a">>, <<"hh.entry", "hh.T", "hh.E">>)
          @@ "ff" :> Fn("i8", <<>>, <<"ff.entry">>),
        "hh.entry" :> <<"hh.c", "hh.br">>
          @@ "hh.T" :> <<"hh.reta">>
          @@ "hh.E" :> <<"hh.ret0">>
          @@ "ff.entry" :> <<"ff.r1", "ff.r2", "ff.s", "ff.ret">>,
        "hh.c" :> Ins("icmp", "i1", <<"hh.a", "c10">>, "slt", <<>>)
          @@ "hh.br" :> CondBr("hh.c", "hh.T", "hh.E")
          @@ "hh.reta" :> Ret(<<"hh.a">>)
          @@ "hh.ret0" :> Ret(<<"c0">>)
          @@ "ff.r1" :> Ins("call", "i8", <<Kname(k)>>, "hh", <<>>)
          @@ "ff.r2" :> Ins("call", "i8", <<IF far THEN "c20" ELSE Kname(k)>>, "hh", <<>>)
          @@ "ff.s" :> Ins("add", "i8", <<"ff.r1", "ff.r2">>, "", <<>>)
          @@ "ff.ret" :> Ret(<<"ff.s">>),
        <<>>, EmptyMap,
        "hh.a" :> "i8")

\* i8 sys_cmp(i8 y) { if (k <s y) return y; else return y; }
ModCmp(k) ==
    Mod(<<"sys_cmp">>,
        "sys_cmp" :> Fn("i8", <<"sys_cmp.y">>, <<"cmp.entry", "cmp.T", "cmp.E">>),
        "cmp.entry" :> <<"cmp.c", "cmp.br">>
          @@ "cmp.T" :> <<"cmp.retT">>
          @@ "cmp.E" :> <<"cmp.retE">>,
        "cmp.c" :> Ins("icmp", "i1", <<Kname(k), "sys_cmp.y">>, "slt", <<>>)
          @@ "cmp.br" :> CondBr("cmp.c", "cmp.T", "cmp.E")
          @@ "cmp.retT" :> Ret(<<"sys_cmp.y">>)
          @@ "cmp.retE" :> Ret(<<"sys_cmp.y">>),
        <<>>, EmptyMap,
        "sys_cmp.y" :> "i8")

\* @arr = global [2 x i8] [1, 2]
\* i8 get(i8 i) { return arr[i]; }
\* i8 deref(ptr q) { return *q; }
\* i8 user() { return get(k); }
ModArray(k, calleeFirst) ==
    Mod(IF calleeFirst THEN <<"get", "deref", "user">> ELSE <<"user", "deref", "get">>,
        "get" :> Fn("i8", <<"get.i">>, <<"get.entry">>)
          @@ "deref" :> Fn("i8", <<"deref.q">>, <<"deref.entry">>)
          @@ "user" :> Fn("i8", <<>>, <<"user.entry">>),
        "get.entry" :> <<"get.p", "get.v", "get.ret">>
          @@ "deref.entry" :> <<"deref.w", "deref.ret">>
          @@ "user.entry" :> <<"user.r", "user.ret">>,
        "get.p" :> Ins("gep", "ptr", <<"@arr", "c0", "get.i">>, "", <<>>)
          @@ "get.v" :> Ins("load", "i8", <<"get.p">>, "", <<>>)
          @@ "get.ret" :> Ret(<<"get.v">>)
          @@ "deref.w" :> Ins("load", "i8", <<"deref.q">>, "", <<>>)
          @@ "deref.ret" :> Ret(<<"deref.w">>)
          @@ "user.r" :> Ins("call", "i8", <<Kname(k)>>, "get", <<>>)
          @@ "user.ret" :> Ret(<<"user.r">>),
        <<"@arr">>, "@arr" :> Glob("arr", "i8", <<1, 2>>),
        "get.i" :> "i8" @@ "deref.q" :> "ptr")

\* @cnt = global i8 k
\* i8 tick() { t = cnt; u = t + 1; cnt = u; return u; }
ModCounter(k) ==
    Mod(<<"tick">>,
        "tick" :> Fn("i8", <<>>, <<"tick.entry">>),
        "tick.entry" :> <<"tick.t", "tick.u", "tick.store", "tick.ret">>,
        "tick.t" :> Ins("load", "i8", <<"@cnt">>, "", <<>>)
          @@ "tick.u" :> Ins("add", "i8", <<"tick.t", "c1">>, "", <<>>)
          @@ "tick.store" :> Ins("store", "void", <<"tick.u", "@cnt">>, "", <<>>)
          @@ "tick.ret" :> Ret(<<"tick.u">>),
        <<"@cnt">>, "@cnt" :> Glob("int", "i8", <<k>>),
        EmptyMap)

\* i8 g(i8 y) { return y + 1; }
\* i8 f() { return g(k); }
\* under the names g and f, in either order
ModSummary(k, calleeFirst, g, f) ==
    Mod(IF calleeFirst THEN <<g, f>> ELSE <<f, g>>,
        g :> Fn("i8", <<g \o ".y">>, <<g \o ".entry">>)
          @@ f :> Fn("i8", <<>>, <<f \o ".entry">>),
        (g \o ".entry") :> <<g \o ".s", g \o ".ret">>
          @@ (f \o ".entry") :> <<f \o ".r", f \o ".ret">>,
        (g \o ".s") :> Ins("add", "i8", <<g \o ".y", "c1">>, "", <<>>)
          @@ (g \o ".ret") :> Ret(<<g \o ".s">>)
          @@ (f \o ".r") :> Ins("call", "i8", <<Kname(k)>>, g, <<>>)
          @@ (f \o ".ret") :> Ret(<<f \o ".r">>),
        <<>>, EmptyMap,
        (g \o ".y") :> "i8")

\* declare ptr @kzalloc(i8)
\* i8 f(i8 n) { for (i = fromArg ? n : 0; i <u k; i = i + 1) {} kzalloc(i + 1); return i; }
ModLoop(k, f, fromArg) ==
    Mod(<<"kzalloc", f>>,
        "kzalloc" :> Fn("ptr", <<"kzalloc.n">>, <<>>)
          @@ f :> Fn("i8", <<f \o ".n">>,
                     <<"loop.entry", "loop.head", "loop.body", "loop.exit">>),
        "loop.entry" :> <<"loop.br">>
          @@ "loop.head" :> <<"loop.i", "loop.c", "loop.cbr">>
          @@ "loop.body" :> <<"loop.i2", "loop.back">>
          @@ "loop.exit" :> <<"loop.m", "loop.p", "loop.ret">>,
        "loop.br" :> Br("loop.head")
          @@ "loop.i" :> Ins("phi", "i8", <<IF fromArg THEN f \o ".n" ELSE "c0", "loop.i2">>,
                             "", <<"loop.entry", "loop.body">>)
          @@ "loop.c" :> Ins("icmp", "i1", <<"loop.i", Kname(k)>>, "ult", <<>>)
          @@ "loop.cbr" :> CondBr("loop.c", "loop.body", "loop.exit")
          @@ "loop.i2" :> Ins("add", "i8", <<"loop.i", "c1">>, "", <<>>)
          @@ "loop.back" :> Br("loop.head")
          @@ "loop.m" :> Ins("add", "i8", <<"loop.i", "c1">>, "", <<>>)
          @@ "loop.p" :> Ins("call", "ptr", <<"loop.m">>, "kzalloc", <<>>)
          @@ "loop.ret" :> Ret(<<"loop.i">>),
        <<>>, EmptyMap,
        "kzalloc.n" :> "i8" @@ (f \o ".n") :> "i8")

\* declare ptr @kzalloc(i8)
\* @g = global i8 0
\* void sys_set(i8 x) { g = x; g = k; kzalloc(g); }
ModTwoStores(k) ==
    Mod(<<"kzalloc", "sys_set">>,
        "kzalloc" :> Fn("ptr", <<"kzalloc.n">>, <<>>)
          @@ "sys_set" :> Fn("void", <<"sys_set.x">>, <<"set.entry">>),
        "set.entry" :> <<"set.s1", "set.s2", "set.t", "set.p", "set.ret">>,
        "set.s1" :> Ins("store", "void", <<"sys_set.x", "@g">>, "", <<>>)
          @@ "set.s2" :> Ins("store", "void", <<Kname(k), "@g">>, "", <<>>)
          @@ "set.t" :> Ins("load", "i8", <<"@g">>, "", <<>>)
          @@ "set.p" :> Ins("call", "ptr", <<"set.t">>, "kzalloc", <<>>)
          @@ "set.ret" :> Ret(<<>>),
        <<"@g">>, "@g" :> Glob("int", "i8", <<0>>),
        "kzalloc.n" :> "i8" @@ "sys_set.x" :> "i8")

\* declare ptr @kzalloc(i8)
\* i8 rec(i8 n) { return rec(n + k); }
\* void sys_top(i8 x) { kzalloc(rec(x) + 1); }
ModRecursive(k) ==
    Mod(<<"kzalloc", "rec", "sys_top">>,
        "kzalloc" :> Fn("ptr", <<"kzalloc.n">>, <<>>)
          @@ "rec" :> Fn("i8", <<"rec.n">>, <<"rec.entry">>)
          @@ "sys_top" :> Fn("void", <<"sys_top.x">>, <<"top.entry">>),
        "rec.entry" :> <<"rec.a", "rec.r", "rec.ret">>
          @@ "top.entry" :> <<"top.v", "top.w", "top.p", "top.ret">>,
        "rec.a" :> Ins("add", "i8", <<"rec.n", Kname(k)>>, "", <<>>)
          @@ "rec.r" :> Ins("call", "i8", <<"rec.a">>, "rec", <<>>)
          @@ "rec.ret" :> Ret(<<"rec.r">>)
          @@ "top.v" :> Ins("call", "i8", <<"sys_top.x">>, "rec", <<>>)
          @@ "top.w" :> Ins("add", "i8", <<"top.v", "c1">>, "", <<>>)
          @@ "top.p" :> Ins("call", "ptr", <<"top.w">>, "kzalloc", <<>>)
          @@ "top.ret" :> Ret(<<>>),
        <<>>, EmptyMap,
        "kzalloc.n" :> "i8" @@ "rec.n" :> "i8" @@ "sys_top.x" :> "i8")

\* i8 f(i8 v) { switch (byConst ? 10 : v) { case k: case 10: return v; default: return 1; } }
ModSwitch(k, f, byConst) ==
    Mod(<<f>>,
        f :> Fn("i8", <<f \o ".v">>, <<"sw.entry", "sw.A", "sw.D">>),
        "sw.entry" :> <<"sw.sw">>
          @@ "sw.A" :> <<"sw.retA">>
          @@ "sw.D" :> <<"sw.retD">>,
        "sw.sw" :> Switch(IF byConst THEN "c10" ELSE f \o ".v", "sw.D",
                          <<Kname(k), "c10">>, <<"sw.A", "sw.A">>)
          @@ "sw.retA" :> Ret(<<f \o ".v">>)
          @@ "sw.retD" :> Ret(<<"c1">>),
        <<>>, EmptyMap,
        (f \o ".v") :> "i8")

\* @g = global i8 0
\* i8 rd() { t0 = g; if (t0 <u 10) g = k; t = g; return t; }
\* i8 other() { g = 20; u = g; return u; }
ModStoreLoad(k) ==
    Mod(<<"rd", "other">>,
        "rd" :> Fn("i8", <<>>, <<"sl.entry", "sl.T", "sl.J">>)
          @@ "other" :> Fn("i8", <<>>, <<"other.entry">>),
        "sl.entry" :> <<"sl.t0", "sl.c", "sl.cbr">>
          @@ "sl.T" :> <<"sl.store", "sl.br">>
          @@ "sl.J" :> <<"sl.t", "sl.ret">>
          @@ "other.entry" :> <<"other.store", "other.u", "other.ret">>,
        "sl.t0" :> Ins("load", "i8", <<"@g">>, "", <<>>)
          @@ "sl.c" :> Ins("icmp", "i1", <<"sl.t0", "c10">>, "ult", <<>>)
          @@ "sl.cbr" :> CondBr("sl.c", "sl.T", "sl.J")
          @@ "sl.store" :> Ins("store", "void", <<Kname(k), "@g">>, "", <<>>)
          @@ "sl.br" :> Br("sl.J")
          @@ "sl.t" :> Ins("load", "i8", <<"@g">>, "", <<>>)
          @@ "sl.ret" :> Ret(<<"sl.t">>)
          @@ "other.store" :> Ins("store", "void", <<"c20", "@g">>, "", <<>>)
          @@ "other.u" :> Ins("load", "i8", <<"@g">>, "", <<>>)
          @@ "other.ret" :> Ret(<<"other.u">>),
        <<"@g">>, "@g" :> Glob("int", "i8", <<0>>),
        EmptyMap)

\* @ext = external global i8
\* i8 rdx() { return ext + k; }
ModExtern(k) ==
    Mod(<<"rdx">>,
        "rdx" :> Fn("i8", <<>>, <<"rdx.entry">>),
        "rdx.entry" :> <<"rdx.t", "rdx.u", "rdx.ret">>,
        "rdx.t" :> Ins("load", "i8", <<"@ext">>, "", <<>>)
          @@ "rdx.u" :> Ins("add", "i8", <<"rdx.t", Kname(k)>>, "", <<>>)
          @@ "rdx.ret" :> Ret(<<"rdx.u">>),
        <<"@ext">>, "@ext" :> Glob("int", "i8", <<>>),
        EmptyMap)

\* the modules the pass is run on
InputModules ==
    UNION {{ModTaint(k), ModHelper(k), ModStore(k), ModCmp(k), ModCounter(k),
            ModBranch(k, TRUE, TRUE), ModBranch(k, FALSE, TRUE), ModBranch(k, TRUE, FALSE),
            ModArray(k, TRUE), ModArray(k, FALSE),
            ModSummary(k, TRUE, "g", "f"), ModSummary(k, FALSE, "g", "f"),
            ModSummary(k, TRUE, "sys_g", "f"), ModSummary(k, TRUE, "sys_g", "sys_f"),
            ModLoop(k, "loop", TRUE), ModLoop(k, "loop", FALSE), ModLoop(k, "sys_loop", TRUE),
            ModTwoStores(k), ModRecursive(k), ModStoreLoad(k), ModExtern(k),
            ModSwitch(k, "sw", FALSE), ModSwitch(k, "sys_sw", FALSE), ModSwitch(k, "sw", TRUE)}
           : k \in 0..MaxK}

\* ------------------------------------------------------------ IR queries
RECURSIVE Concat(_)
Concat(ss) == IF ss = <<>> THEN <<>> ELSE Head(ss) \o Concat(Tail(ss))

isDeclaration(m, f) == m.fn[f].blocks = <<>>
FuncInsts(m, f) == Concat([i \in DOMAIN m.fn[f].blocks |-> m.blk[m.fn[f].blocks[i]]])
AllInsts(m) == Concat([i \in DOMAIN m.funcs |-> FuncInsts(m, m.funcs[i])])
ParentBlock(m, inst) == CHOOSE b \in DOMAIN m.blk : inst \in Range(m.blk[b])
BlockFunc(m, b) == CHOOSE f \in DOMAIN m.fn : b \in Range(m.fn[f].blocks)
ParentFunc(m, inst) == BlockFunc(m, ParentBlock(m, inst))
\* Function::getEntryBlock(); of a declaration it is the block list's sentinel
getEntryBlock(m, f) == IF isDeclaration(m, f) THEN f \o ".sentinel" ELSE m.fn[f].blocks[1]

IsConstantInt(m, v) == v \in DOMAIN m.const
IsGlobalVariable(m, v) == v \in DOMAIN m.glob
IsInstruction(m, v) == v \in DOMAIN m.ins
IsArgument(m, v) == v \in DOMAIN m.argty
TypeOf(m, v) ==
    IF IsInstruction(m, v) THEN m.ins[v].ty
    ELSE IF IsArgument(m, v) THEN m.argty[v]
    ELSE IF IsConstantInt(m, v) THEN "i" \o ToString(m.const[v].bw)
    ELSE "ptr"

\* the instructions that use v as an operand, in program order
Users(m, v) == SelectSeq(AllInsts(m), LAMBDA i : v \in Range(m.ins[i].ops))
\* the instructions that use function f (its calls)
FuncUsers(m, f) ==
    SelectSeq(AllInsts(m), LAMBDA i : m.ins[i].op = "call" /\ m.ins[i].aux = f)

getTerminator(m, b) == m.ins[m.blk[b][Len(m.blk[b])]]
successors(m, b) == getTerminator(m, b).tgt
predecessors(m, b) ==
    SelectSeq(m.fn[BlockFunc(m, b)].blocks, LAMBDA p : b \in Range(successors(m, p)))

\* ---------------------------------------------------------- taint marker
ArgCallName(f, argNo) == f \o ".mkint.arg" \o ToString(argNo)
\* the name of the call instruction that stands for an argument
ArgCallInst(arg) == arg \o "1"

\* one argument of get_taint_source's loop: r = [m, ret]
RewriteArg(r, f, i) ==
    LET m == r.m
        arg == m.fn[f].args[i]
        ty == m.argty[arg]
        call_name == ArgCallName(f, i - 1)
        call_inst == ArgCallInst(arg)
        entry == m.fn[f].blocks[1]
    IN  IF ~IsIntegerTy(ty) \/ Users(m, arg) = <<>> THEN r
        ELSE [m |-> [m EXCEPT
                  \* getOrInsertFunction(call_name, itype)
                  !.funcs = AppendNew(@, call_name),
                  !.fn = Put(@, call_name, Fn(ty, <<>>, <<>>)),
                  \* arg.replaceAllUsesWith(call_inst), CallInst::Create
                  !.ins = Put([x \in DOMAIN @ |->
                                 [@[x] EXCEPT !.ops = [j \in DOMAIN @ |->
                                      IF @[j] = arg THEN call_inst ELSE @[j]]]],
                              call_inst, Ins("call", ty, <<>>, call_name, <<>>)),
                  !.blk = [@ EXCEPT ![entry] = <<call_inst>> \o @]],
              ret |-> Append(r.ret, call_inst)]

RECURSIVE RewriteArgs(_, _, _)
RewriteArgs(r, f, i) ==
    IF i > Len(r.m.fn[f].args) THEN r ELSE RewriteArgs(RewriteArg(r, f, i), f, i + 1)

\* a marker that rewrites the arguments of every function, source or not
get_taint_source_of_any(m, f) == RewriteArgs([m |-> m, ret |-> <<>>], f, 1)

\* get_taint_source(F): [m |-> the rewritten module, ret |-> the source calls]
get_taint_source(m, f) ==
    IF is_taint_src(f) THEN RewriteArgs([m |-> m, ret |-> <<>>], f, 1)
    ELSE [m |-> m, ret |-> <<>>]

\* the sink table gives the 1-based position of the sink-relevant argument
SinkOfCall(m, inst) ==
    LET call == m.ins[inst]
        name == Demangle(call.aux)
    IN  IF call.op = "call" /\ name \in DOMAIN MKINT_SINKS
           /\ MKINT_SINKS[name] <= Len(call.ops)
           /\ IsInstruction(m, call.ops[MKINT_SINKS[name]])
        THEN <<call.ops[MKINT_SINKS[name]], name>>
        ELSE <<>>

RECURSIVE MarkCallSinks(_, _, _)
MarkCallSinks(m, insts, sk) ==
    IF insts = <<>> THEN sk
    ELSE LET s == SinkOfCall(m, Head(insts))
         IN  MarkCallSinks(m, Tail(insts), IF s = <<>> THEN sk ELSE Put(sk, s[1], s[2]))

\* a marker that takes any use of F for a use outside the sources
ReturnIsSinkAnyUse(m, f) ==
    is_taint_src(f) /\ IsIntegerTy(m.fn[f].ret) /\ FuncUsers(m, f) # <<>>

\* whether the returns of source F are sinks: F returns an integer and is
\* used in a function that is no source
ReturnIsSink(m, f) ==
    /\ is_taint_src(f)
    /\ IsIntegerTy(m.fn[f].ret)
    /\ \E u \in Range(FuncUsers(m, f)) : ~is_taint_src(ParentFunc(m, u))

\* mark_func_sinks(F): the mkint.sink metadata after it
mark_func_sinks(m, f, sk) ==
    LET s1 == MarkCallSinks(m, FuncInsts(m, f), sk)
        rets == {i \in Range(FuncInsts(m, f)) : m.ins[i].op = "ret"}
    IN  IF ReturnIsSink(m, f)
        THEN [x \in DOMAIN s1 \cup rets |-> IF x \in rets THEN "return" ELSE s1[x]]
        ELSE s1

\* -------------------------------------------------------- taint propagator
\* get_sink_fns(inst): the sink callees among the users of inst
get_sink_fns(m, inst) ==
    LET calls == SelectSeq(Users(m, inst), LAMBDA u :
                    m.ins[u].op = "call" /\ Demangle(m.ins[u].aux) \in DOMAIN MKINT_SINKS)
    IN  [i \in DOMAIN calls |-> m.ins[calls[i]].aux]

RECURSIVE InsertAll(_, _)
InsertAll(s, xs) == IF xs = <<>> THEN s ELSE InsertAll(AppendNew(s, Head(xs)), Tail(xs))

mark_taint(t, inst, taint_name) == Put(t, inst, taint_name)

\* The propagation state st = [taint, tf, ok, div]: the mkint.taint metadata,
\* m_taint_funcs, the value returned, and whether the recursion met an
\* instruction that is already on its call stack (path) and so never returns.
RECURSIVE is_sink_reachable(_, _, _, _, _)
RECURSIVE ReachAll(_, _, _, _, _, _)
RECURSIVE BcastUsers(_, _, _, _, _, _)
RECURSIVE BcastArgs(_, _, _, _, _, _)

\* you_see_sink |= is_sink_reachable(u) over the users us; saw accumulates
ReachAll(m, sk, us, st, path, saw) ==
    IF us = <<>> \/ st.div THEN [st EXCEPT !.ok = saw]
    ELSE LET r == is_sink_reachable(m, sk, Head(us), st, path)
         IN  ReachAll(m, sk, Tail(us), r, path, saw \/ r.ok)

\* the inner loop of taint_bcast_sink(Iter): the users of one argument
BcastUsers(m, sk, us, st, path, ret) ==
    IF us = <<>> \/ st.div THEN [st EXCEPT !.ok = ret]
    ELSE LET r == is_sink_reachable(m, sk, Head(us), st, path)
             r2 == IF r.ok THEN [r EXCEPT !.taint = mark_taint(@, Head(us), "")] ELSE r
         IN  BcastUsers(m, sk, Tail(us), r2, path, ret \/ r.ok)

\* taint_bcast_sink(f->args())
BcastArgs(m, sk, args, st, path, ret) ==
    IF args = <<>> \/ st.div THEN [st EXCEPT !.ok = ret]
    ELSE LET r == BcastUsers(m, sk, Users(m, Head(args)), st, path, ret)
         IN  BcastArgs(m, sk, Tail(args), r, path, r.ok)

taint_bcast_sink_args(m, sk, f, st, path) ==
    BcastArgs(m, sk, m.fn[f].args, st, path, FALSE)

is_sink_reachable(m, sk, inst, st, path) ==
    LET I == m.ins[inst] IN
    IF inst \in path THEN [st EXCEPT !.ok = FALSE, !.div = TRUE]
    ELSE IF Has(sk, inst)
    THEN [st EXCEPT !.tf = InsertAll(@, get_sink_fns(m, inst)), !.ok = TRUE]
    ELSE IF I.op = "store" THEN
        LET ptr == I.ops[2] IN
        IF IsGlobalVariable(m, ptr) THEN
            LET others == SelectSeq(Users(m, ptr), LAMBDA u : u # inst)
                r == ReachAll(m, sk, others, st, path \cup {inst}, FALSE)
            IN  IF r.ok /\ ~r.div
                THEN [r EXCEPT !.taint = mark_taint(mark_taint(@, inst, ""), ptr, "")]
                ELSE [r EXCEPT !.ok = FALSE]
        ELSE [st EXCEPT !.ok = FALSE]
    ELSE
        LET f == I.aux
            known == I.op = "call" /\ ~isDeclaration(m, f)
            b == IF known THEN taint_bcast_sink_args(m, sk, f, st, path \cup {inst})
                 ELSE [st EXCEPT !.ok = FALSE]
            s1 == IF b.ok THEN [b EXCEPT !.tf = AppendNew(@, f)] ELSE b
            r == ReachAll(m, sk, Users(m, inst), s1, path \cup {inst}, b.ok)
        IN  IF r.ok /\ ~r.div
            THEN [r EXCEPT !.taint = mark_taint(@, inst, ""),
                           !.tf = IF I.op = "call" /\ m.fn[f].ret # "void"
                                  THEN AppendNew(@, f) ELSE @]
            ELSE [r EXCEPT !.ok = FALSE]

\* a propagator that marks a source whether or not it reaches a sink
MarkSourceAlways(r, ts) == [r EXCEPT !.taint = mark_taint(@, ts, "source")]

\* lines 617-620: a source that reaches a sink is marked
MarkSource(r, ts) ==
    IF r.ok THEN [r EXCEPT !.taint = mark_taint(@, ts, "source")] ELSE r

\* taint_bcast_sink(const std::vector<Instruction*>&)
RECURSIVE BcastSources(_, _, _, _, _)
BcastSources(m, sk, tsrc, st, ret) ==
    IF tsrc = <<>> \/ st.div THEN [st EXCEPT !.ok = ret]
    ELSE LET r == is_sink_reachable(m, sk, Head(tsrc), st, {})
         IN  BcastSources(m, sk, Tail(tsrc), MarkSource(r, Head(tsrc)), ret \/ r.ok)

taint_bcast_sink(m, sk, tsrc, st) == BcastSources(m, sk, tsrc, st, FALSE)

\* ------------------------------------------------------ back-edge detector
\* the blocks reached from the blocks of set cur by one or more successor
\* edges, never continuing through bb: the worklist of backedge_analysis
\* a detector that stops at the direct successors
DirectSuccs(m, bb, found) == Range(successors(m, bb)) \ {bb}

RECURSIVE RemoteSuccs(_, _, _)
RemoteSuccs(m, bb, found) ==
    LET more == {s \in UNION {Range(successors(m, c)) : c \in found \cup {bb}} :
                    s # bb /\ s \notin found}
    IN  IF more = {} THEN found ELSE RemoteSuccs(m, bb, found \cup more)

backedge_analysis(m, f, be) ==
    [b \in DOMAIN be \cup Range(m.fn[f].blocks) |->
        IF b \in DOMAIN be THEN be[b] ELSE RemoteSuccs(m, b, {})]

\* ---------------------------------------------------------- range analyzer
\* The analysis state R = [info, glb, ret, dead, oob, abort]: m_func2range_info
\* (keyed by block: a block belongs to one function), m_global2range,
\* m_func2ret_range, m_impossible_branches, m_gep_oob, and whether
\* MKINT_CHECK_ABORT has ended the run.
BlockMap(R, bb) == IF Has(R.info, bb) THEN R.info[bb] ELSE EmptyMap
\* map[key] of a map of cranges: a missing key reads as crange()
At(map, key) == IF Has(map, key) THEN map[key] ELSE DefaultRange
SetVal(R, bb, v, rng) == [R EXCEPT !.info = Put(@, bb, Put(BlockMap(R, bb), v, rng))]
\* bb_range[bb]: operator[] creates the block's map
TouchBlock(R, bb) == [R EXCEPT !.info = Put(@, bb, BlockMap(R, bb))]

\* the value get_range_by_bb(var, bb) returns
get_range_by_bb(m, R, var, bb) ==
    IF IsConstantInt(m, var) THEN m.const[var]
    ELSE IF Has(BlockMap(R, bb), var) THEN R.info[bb][var]
    ELSE At(R.glb, var)

\* the state get_range_by_bb(var, bb) leaves: bb_range[bb] and
\* m_global2range[gv] are created by operator[], and a value that is in
\* neither map aborts
Lookup(m, R, var, bb) ==
    IF R.abort \/ IsConstantInt(m, var) THEN R
    ELSE IF Has(BlockMap(R, bb), var) THEN R
    ELSE IF IsGlobalVariable(m, var)
         THEN [R EXCEPT !.info = Put(@, bb, BlockMap(R, bb)),
                        !.glb = Put(@, var, At(R.glb, var))]
    ELSE [R EXCEPT !.abort = TRUE]

\* lhs.zextOrTrunc(w) for w >= the width of lhs (ConstantRange::zeroExtend)
zextOrTrunc(r, w) ==
    IF w = r.bw THEN r
    ELSE IF IsEmptySet(r) THEN Empty(w)
    ELSE IF IsFullSet(r) \/ IsUpperWrapped(r)
         THEN CR(w, IF r.hi = 0 THEN r.lo ELSE 0, Pow2(r.bw))
    ELSE CR(w, r.lo, r.hi)

auto_promote(lhs, rhs) ==
    IF lhs.bw < rhs.bw THEN <<zextOrTrunc(lhs, lhs.bw), rhs>>
    ELSE IF lhs.bw > rhs.bw THEN <<lhs, zextOrTrunc(rhs, rhs.bw)>>
    ELSE <<lhs, rhs>>

BinaryOps == {"add"}
BinaryRange(op, lhs, rhs) ==
    CASE op = "add" -> AddRange(lhs, rhs)
      [] OTHER -> rhs
compute_binary_rng(op, lhs_, rhs_) ==
    BinaryRange(op, auto_promote(lhs_, rhs_)[1], auto_promote(lhs_, rhs_)[2])

\* the predicates whose allowed regions narrow the operands of
\* ICmp(p, lhs, rhs) on the edge to the true or to the false successor
LhsPredicate(p, is_true_br) == IF is_true_br THEN p ELSE InversePred(p)
RhsPredicate(p, is_true_br) == IF is_true_br THEN SwappedPred(p) ELSE InversePred(p)

\* lines 300-304: an operand the block has no interval for starts empty
SeedOperand(m, cur, v) ==
    IF Has(cur, v) THEN cur ELSE Put(cur, v, Empty(IntegerBitWidth(TypeOf(m, v))))

\* lines 312-317, 323-328: the operand's interval in pred, cut to the allowed
\* region and joined with what the block holds; a constant keeps its value
NarrowOperand(m, cur, v, rng, region) ==
    Put(cur, v, IF IsConstantInt(m, v) THEN rng
                ELSE UnionWith(IntersectWith(rng, region), cur[v]))

\* lines 331-334
RecordNarrowed(L, bb, cmp, lhs, rhs, is_true_br, cur) ==
    [L EXCEPT !.info = Put(@, bb, cur),
              !.dead = IF IsEmptySet(cur[lhs]) \/ IsEmptySet(cur[rhs])
                       THEN Put(@, cmp, is_true_br) ELSE @]

NarrowRanges(m, L, bb, cmp, lhs, rhs, p, is_true_br, lrng, rrng) ==
    RecordNarrowed(L, bb, cmp, lhs, rhs, is_true_br,
        NarrowOperand(m,
            NarrowOperand(m, SeedOperand(m, SeedOperand(m, BlockMap(L, bb), lhs), rhs),
                          lhs, lrng, CmpRegion(LhsPredicate(p, is_true_br), rrng)),
            rhs, rrng, CmpRegion(RhsPredicate(p, is_true_br), lrng)))

NarrowLooked(m, L, bb, pred, cmp) ==
    IF L.abort THEN L
    ELSE NarrowRanges(m, L, bb, cmp, m.ins[cmp].ops[1], m.ins[cmp].ops[2], m.ins[cmp].aux,
                      getTerminator(m, pred).tgt[1] = bb,
                      get_range_by_bb(m, L, m.ins[cmp].ops[1], pred),
                      get_range_by_bb(m, L, m.ins[cmp].ops[2], pred))

\* lines 286-338: the narrowing of the operands of cmp on the edge pred -> bb
NarrowByBranch(m, R, bb, pred, cmp) ==
    NarrowLooked(m, Lookup(m, Lookup(m, R, m.ins[cmp].ops[1], pred),
                           m.ins[cmp].ops[2], pred),
                 bb, pred, cmp)

\* lines 357-372: emp_rng joined with the case constants from index j on,
\* all of them for the default destination, else those whose successor is bb
RECURSIVE CaseUnion(_, _, _, _, _)
CaseUnion(m, swt, bb, j, emp_rng) ==
    IF j > Len(swt.ops) THEN emp_rng
    ELSE CaseUnion(m, swt, bb, j + 1,
                   IF swt.tgt[1] = bb \/ swt.tgt[j] = bb
                   THEN UnionWith(emp_rng, m.const[swt.ops[j]]) ELSE emp_rng)

\* lines 355-373: emp_rng of the edge to bb
SwitchRegion(m, swt, bb) ==
    IF swt.tgt[1] = bb
    THEN Inverse(CaseUnion(m, swt, bb, 2, Empty(IntegerBitWidth(TypeOf(m, swt.ops[1])))))
    ELSE CaseUnion(m, swt, bb, 2, Empty(IntegerBitWidth(TypeOf(m, swt.ops[1]))))

\* line 375
SwitchLooked(m, L, bb, cond, swt) ==
    IF L.abort THEN L
    ELSE SetVal(L, bb, cond,
                UnionWith(get_range_by_bb(m, L, cond, bb), SwitchRegion(m, swt, bb)))

\* lines 340-377: line 354 reads the condition in the block bb itself
NarrowBySwitch(m, R, bb, pred) ==
    SwitchLooked(m, Lookup(m, R, getTerminator(m, pred).ops[1], bb), bb,
                 getTerminator(m, pred).ops[1], getTerminator(m, pred))

\* lines 350-352: the predecessor is left out (continue)
SwitchSkipped(m, pred) ==
    /\ getTerminator(m, pred).op = "switch"
    /\ ~IsIntegerTy(TypeOf(m, getTerminator(m, pred).ops[1]))

\* the values the branch of pred narrows (narrowed_insts)
NarrowedInsts(m, pred) ==
    IF getTerminator(m, pred).op = "condbr"
       /\ IsInstruction(m, getTerminator(m, pred).ops[1])
       /\ m.ins[getTerminator(m, pred).ops[1]].op = "icmp"
    THEN Range(m.ins[getTerminator(m, pred).ops[1]].ops)
    ELSE IF getTerminator(m, pred).op = "switch" THEN {getTerminator(m, pred).ops[1]}
    ELSE {}

\* lines 284-383: the terminator of pred
NarrowByTerminator(m, R, bb, pred) ==
    IF getTerminator(m, pred).op \notin {"br", "condbr", "switch"}
    THEN [R EXCEPT !.abort = TRUE]
    ELSE IF getTerminator(m, pred).op = "switch" THEN NarrowBySwitch(m, R, bb, pred)
    ELSE IF NarrowedInsts(m, pred) # {}
         THEN NarrowByBranch(m, R, bb, pred, getTerminator(m, pred).ops[1])
    ELSE R

MergeMaps(cur, from, keys) ==
    [v \in DOMAIN cur \cup keys |->
        IF v \notin keys THEN cur[v]
        ELSE IF v \notin DOMAIN cur THEN from[v]
        ELSE UnionWith(cur[v], from[v])]

\* lines 385-394: the other values of pred are joined into the block
MergeVals(R, bb, pred, narrowed) ==
    IF R.abort THEN R
    ELSE [R EXCEPT !.info = Put(Put(@, pred, BlockMap(R, pred)), bb,
              MergeMaps(BlockMap(R, bb), BlockMap(R, pred),
                        DOMAIN BlockMap(R, pred) \ narrowed))]

\* one predecessor of the merge loop of range_analysis
MergePred(m, be, R, bb, pred) ==
    IF R.abort \/ pred \in be[bb] \/ SwitchSkipped(m, pred) THEN R
    ELSE MergeVals(NarrowByTerminator(m, R, bb, pred), bb, pred, NarrowedInsts(m, pred))

RECURSIVE MergePreds(_, _, _, _, _)
MergePreds(m, be, R, bb, preds) ==
    IF preds = <<>> THEN R
    ELSE MergePreds(m, be, MergePred(m, be, R, bb, Head(preds)), bb, Tail(preds))

\* line 405: the argument's interval widens the callee's entry state
WidenArg(m, L, entry, arg, operand, bb) ==
    IF L.abort THEN L
    ELSE SetVal(L, entry, arg, UnionWith(get_range_by_bb(m, L, operand, bb),
                                         At(BlockMap(L, entry), arg)))

RECURSIVE WidenArgs(_, _, _, _, _)
WidenArgs(m, R, bb, inst, j) ==
    IF j > Len(m.fn[m.ins[inst].aux].args) \/ R.abort THEN R
    ELSE WidenArgs(m,
            IF ~IsIntegerTy(m.argty[m.fn[m.ins[inst].aux].args[j]])
            THEN TouchBlock(R, getEntryBlock(m, m.ins[inst].aux))
            ELSE WidenArg(m, Lookup(m, TouchBlock(R, getEntryBlock(m, m.ins[inst].aux)),
                                    m.ins[inst].ops[j], bb),
                          getEntryBlock(m, m.ins[inst].aux),
                          m.fn[m.ins[inst].aux].args[j], m.ins[inst].ops[j], bb),
            bb, inst, j + 1)

\* lines 408-409: the call's interval is the callee's return summary
CallResult(m, W, bb, inst, f) ==
    IF W.abort \/ ~IsIntegerTy(m.fn[f].ret) THEN W
    ELSE SetVal([W EXCEPT !.ret = Put(@, f, At(W.ret, f))], bb, inst, At(W.ret, f))

CallStep(m, R, bb, inst) ==
    CallResult(m, WidenArgs(m, R, bb, inst, 1), bb, inst, m.ins[inst].aux)

StoreRange(m, L, bb, ptr, valrng) ==
    SetVal(IF IsGlobalVariable(m, ptr)
           THEN [L EXCEPT !.glb = Put(@, ptr, UnionWith(At(L.glb, ptr), valrng))]
           ELSE L,
           bb, ptr, valrng)

StoreLooked(m, L, bb, val, ptr) ==
    IF L.abort THEN L ELSE StoreRange(m, L, bb, ptr, get_range_by_bb(m, L, val, bb))

StoreStep(m, R, bb, inst) ==
    StoreLooked(m, Lookup(m, R, m.ins[inst].ops[1], bb), bb,
                m.ins[inst].ops[1], m.ins[inst].ops[2])

\* an analyzer that never writes a return summary
ReturnDropped(m, L, bb, f, v) == L

ReturnLooked(m, L, bb, f, v) ==
    IF L.abort THEN L
    ELSE [L EXCEPT !.ret = Put(@, f, UnionWith(get_range_by_bb(m, L, v, bb), At(L.ret, f)))]

ReturnStep(m, R, bb, inst) ==
    IF ~IsIntegerTy(m.fn[BlockFunc(m, bb)].ret) THEN R
    ELSE ReturnLooked(m, Lookup(m, R, m.ins[inst].ops[1], bb), bb, BlockFunc(m, bb),
                      m.ins[inst].ops[1])

\* lines 491-497: the index of a one-dimensional global array
GepCheck(m, L, bb, gep, idx, arr_size) ==
    IF ~L.abort /\ GetUnsignedMax(get_range_by_bb(m, L, idx, bb)) >= arr_size
    THEN [L EXCEPT !.oob = @ \cup {gep}]
    ELSE L

\* lines 486-499: a load through a GEP
GepLoad(m, R, garr, bb, gep) ==
    IF IsGlobalVariable(m, m.ins[gep].ops[1]) /\ Has(garr, m.ins[gep].ops[1])
       /\ Len(m.ins[gep].ops) = 3
    THEN GepCheck(m, Lookup(m, R, m.ins[gep].ops[3], bb), bb, gep, m.ins[gep].ops[3],
                  Len(garr[m.ins[gep].ops[1]]))
    ELSE R

\* lines 482-503: a load, <<the state, new_range>>
LoadStep(m, R, garr, bb, inst, addr) ==
    IF IsGlobalVariable(m, addr)
    THEN <<Lookup(m, R, addr, bb), get_range_by_bb(m, R, addr, bb)>>
    ELSE IF IsInstruction(m, addr) /\ m.ins[addr].op = "gep"
    THEN <<GepLoad(m, R, garr, bb, addr), Empty(IntegerBitWidth(m.ins[inst].ty))>>
    ELSE <<R, Full(IntegerBitWidth(m.ins[inst].ty))>>

BinaryLooked(m, L, bb, op, lhs, rhs) ==
    <<L, compute_binary_rng(op, get_range_by_bb(m, L, lhs, bb),
                            get_range_by_bb(m, L, rhs, bb))>>

\* lines 442-447
BinaryStep(m, R, bb, inst) ==
    BinaryLooked(m, Lookup(m, Lookup(m, R, m.ins[inst].ops[1], bb), m.ins[inst].ops[2], bb),
                 bb, m.ins[inst].op, m.ins[inst].ops[1], m.ins[inst].ops[2])

\* lines 474-481: the incoming values of a phi from index j on, each read in
\* the state of its incoming block (tgt), the blocks of be[bb] skipped
RECURSIVE PhiStep(_, _, _, _, _, _, _)
PhiStep(m, be, R, bb, inst, j, new_range) ==
    IF j > Len(m.ins[inst].ops) \/ R.abort THEN <<R, new_range>>
    ELSE IF m.ins[inst].tgt[j] \in be[bb] THEN PhiStep(m, be, R, bb, inst, j + 1, new_range)
    ELSE PhiStep(m, be, Lookup(m, R, m.ins[inst].ops[j], m.ins[inst].tgt[j]), bb, inst, j + 1,
                 UnionWith(new_range,
                           get_range_by_bb(m, R, m.ins[inst].ops[j], m.ins[inst].tgt[j])))

\* lines 440-509: <<the state, new_range>> of an integer instruction
NewRange(m, be, R, garr, bb, inst) ==
    IF m.ins[inst].op \in BinaryOps THEN BinaryStep(m, R, bb, inst)
    ELSE IF m.ins[inst].op = "phi"
    THEN PhiStep(m, be, R, bb, inst, 1, Empty(IntegerBitWidth(m.ins[inst].ty)))
    ELSE IF m.ins[inst].op = "load" THEN LoadStep(m, R, garr, bb, inst, m.ins[inst].ops[1])
    ELSE <<R, Empty(IntegerBitWidth(m.ins[inst].ty))>>

\* line 511
Define(bb, inst, r) ==
    IF r[1].abort THEN r[1]
    ELSE SetVal(r[1], bb, inst, UnionWith(r[2], At(BlockMap(r[1], bb), inst)))

\* one instruction of the straight-line walk of range_analysis
InstStep(m, be, R, garr, bb, inst) ==
    IF R.abort THEN R
    ELSE IF m.ins[inst].op = "call" THEN CallStep(m, R, bb, inst)
    ELSE IF m.ins[inst].op = "store" THEN StoreStep(m, R, bb, inst)
    ELSE IF m.ins[inst].op = "ret" THEN ReturnStep(m, R, bb, inst)
    ELSE IF ~IsIntegerTy(m.ins[inst].ty) THEN R
    ELSE Define(bb, inst, NewRange(m, be, R, garr, bb, inst))

RECURSIVE InstSteps(_, _, _, _, _, _)
InstSteps(m, be, R, garr, bb, insts) ==
    IF insts = <<>> THEN R
    ELSE InstSteps(m, be, InstStep(m, be, R, garr, bb, Head(insts)), garr, bb, Tail(insts))

\* one basic block of range_analysis
BlockStep(m, be, R, garr, bb) ==
    InstSteps(m, be, MergePreds(m, be, TouchBlock(R, bb), bb, predecessors(m, bb)),
              garr, bb, m.blk[bb])

RECURSIVE BlockSteps(_, _, _, _, _)
BlockSteps(m, be, R, garr, bbs) ==
    IF bbs = <<>> THEN R
    ELSE BlockSteps(m, be, BlockStep(m, be, R, garr, Head(bbs)), garr, Tail(bbs))

range_analysis(m, be, R, garr, f) == BlockSteps(m, be, R, garr, m.fn[f].blocks)

\* --------------------------------------------------------- range initializer
\* Type::getIntegerBitWidth() of a type that is no integer type is undefined:
\* a build with assertions aborts, an NDEBUG build reads the type's subclass
\* data, the address space 0 of a pointer
JunkBitWidth == 0

\* one function of init_ranges: S = [info, ret, funcs, ub]
\* an initializer that registers every function and seeds nothing
InitFuncAny(m, tf, S, f) == [S EXCEPT !.funcs = AppendNew(@, f)]

InitFunc(m, tf, S, f) ==
    LET F == m.fn[f] IN
    IF ~(IsIntegerTy(F.ret) \/ f \in Range(tf)) THEN S
    ELSE IF isDeclaration(m, f) THEN
        IF IsIntegerTy(F.ret)
        THEN [S EXCEPT !.ret = Put(@, f, Full(IntegerBitWidth(F.ret)))]
        ELSE [S EXCEPT !.ret = Put(@, f, Full(JunkBitWidth)), !.ub = TRUE]
    ELSE LET entry == getEntryBlock(m, f)
             ints == {a \in Range(F.args) : IsIntegerTy(m.argty[a])}
             old == IF Has(S.info, entry) THEN S.info[entry] ELSE EmptyMap
             init_blk == [a \in DOMAIN old \cup ints |->
                            IF a \notin ints THEN old[a]
                            ELSE IF is_taint_src(f)
                                 THEN Full(IntegerBitWidth(m.argty[a]))
                                 ELSE Empty(IntegerBitWidth(m.argty[a]))]
         IN  [S EXCEPT !.ret = IF IsIntegerTy(F.ret)
                                THEN Put(@, f, Empty(IntegerBitWidth(F.ret))) ELSE @,
                       !.info = Put(@, entry, init_blk),
                       !.funcs = AppendNew(@, f)]

RECURSIVE InitFuncs(_, _, _, _)
InitFuncs(m, tf, S, fs) ==
    IF fs = <<>> THEN S ELSE InitFuncs(m, tf, InitFunc(m, tf, S, Head(fs)), Tail(fs))

\* the globals of init_ranges: G = [glb, garr, ub]
InitGlobal(m, G, g) ==
    LET V == m.glob[g] IN
    IF V.kind = "int" THEN
        IF V.init # <<>>
        THEN [G EXCEPT !.glb = Put(@, g, Single(IntegerBitWidth(V.ty), V.init[1]))]
        ELSE [G EXCEPT !.glb = Put(@, g, Full(JunkBitWidth)), !.ub = TRUE]
    ELSE [G EXCEPT !.garr = Put(@, g, [i \in DOMAIN V.init |->
                                          Single(IntegerBitWidth(V.ty), V.init[i])])]

RECURSIVE InitGlobals(_, _, _)
InitGlobals(m, G, gs) ==
    IF gs = <<>> THEN G ELSE InitGlobals(m, InitGlobal(m, G, Head(gs)), Tail(gs))

\* ------------------------------------------------------------ bug classifier
mark_errors(e, imp, oob) ==
    [x \in DOMAIN e \cup DOMAIN imp \cup oob |->
        IF x \in oob THEN "array index out of bound"
        ELSE IF x \in DOMAIN imp
             THEN (IF imp[x] THEN "impossible true branch" ELSE "impossible false branch")
        ELSE e[x]]

\* ------------------------------------------------------------- orchestrator
max_try == 128

VARIABLES
    mod,        \* the IR module
    taint,      \* mkint.taint metadata: instruction or global -> string
    sink,       \* mkint.sink metadata: instruction -> string
    err,        \* mkint.err metadata: instruction -> string
    m_func2tsrc, m_taint_funcs, m_backedges,
    m_func2range_info, m_func2ret_range, m_range_analysis_funcs,
    m_global2range, m_garr2ranges, m_impossible_branches, m_gep_oob,
    try_count, old_fn_rng, old_glb_rng, old_fn_ret_rng,
    pc,         \* the position in run()
    idx,        \* the position of the loop pc names
    runs,       \* which run of the pass on the module this is
    first,      \* the metadata the first run left
    rounds,     \* the rounds of range analysis this run has completed
    exit_by,    \* how the range loop of this run ended
    abort_by,   \* what ended the run before run() returned
    promotion   \* a call of auto_promote on its own: [lhs, rhs, ret]

ir == <<mod, taint, sink, err>>
taintState == <<m_func2tsrc, m_taint_funcs>>
rangeState ==
    <<m_func2range_info, m_func2ret_range, m_global2range, m_impossible_branches, m_gep_oob>>
rangeSetup == <<m_backedges, m_range_analysis_funcs, m_garr2ranges>>
snapshot == <<old_fn_rng, old_glb_rng, old_fn_ret_rng>>
ghost == <<runs, first, rounds, exit_by, abort_by>>
vars ==
    <<ir, taintState, rangeState, rangeSetup, snapshot, try_count, pc, idx, ghost, promotion>>

\* a fresh MKintPass
FreshPass ==
    /\ m_func2tsrc = <<>>
    /\ m_taint_funcs = <<>>
    /\ m_backedges = EmptyMap
    /\ m_func2range_info = EmptyMap
    /\ m_func2ret_range = EmptyMap
    /\ m_range_analysis_funcs = <<>>
    /\ m_global2range = EmptyMap
    /\ m_garr2ranges = EmptyMap
    /\ m_impossible_branches = EmptyMap
    /\ m_gep_oob = {}
    /\ try_count = 0
    /\ old_fn_rng = EmptyMap
    /\ old_glb_rng = EmptyMap
    /\ old_fn_ret_rng = EmptyMap
    /\ pc = "mark_sources"
    /\ idx = 1
    /\ rounds = 0
    /\ exit_by = "none"
    /\ abort_by = "none"

Init ==
    /\ mod \in InputModules
    /\ taint = EmptyMap
    /\ sink = EmptyMap
    /\ err = EmptyMap
    /\ runs = 1
    /\ first = <<>>
    /\ FreshPass
    /\ promotion = <<>>

\* run(), lines 702-707: one function of the module
MarkSources ==
    /\ pc = "mark_sources"
    /\ LET F == mod.funcs[idx]
           r == get_taint_source(mod, F)
           tsrc == IF is_taint_src(F) THEN Append(m_func2tsrc, <<F, r.ret>>)
                   ELSE m_func2tsrc
       IN  /\ mod' = r.m
           /\ sink' = mark_func_sinks(r.m, F, sink)
           /\ m_func2tsrc' = tsrc
           /\ IF idx < Len(r.m.funcs) THEN pc' = pc /\ idx' = idx + 1
              ELSE pc' = (IF tsrc = <<>> THEN "taint_loop" ELSE "bcast") /\ idx' = 1
    /\ UNCHANGED <<promotion, taint, err, m_taint_funcs, rangeState, rangeSetup, snapshot,
                   try_count, ghost>>

TaintSt(t, tf) == [taint |-> t, tf |-> tf, ok |-> FALSE, div |-> FALSE]

\* run(), lines 709-713: one source function
BcastSource ==
    /\ pc = "bcast"
    /\ LET fp == m_func2tsrc[idx][1]
           r == taint_bcast_sink(mod, sink, m_func2tsrc[idx][2], TaintSt(taint, m_taint_funcs))
       IN  /\ taint' = r.taint
           /\ m_taint_funcs' = IF r.ok THEN AppendNew(r.tf, fp) ELSE r.tf
           /\ IF r.div THEN pc' = "aborted" /\ idx' = idx
              ELSE IF idx < Len(m_func2tsrc) THEN pc' = pc /\ idx' = idx + 1
              ELSE pc' = "taint_loop" /\ idx' = 1
           /\ abort_by' = IF r.div THEN "endless recursion" ELSE abort_by
    /\ UNCHANGED <<promotion, mod, sink, err, m_func2tsrc, rangeState, rangeSetup, snapshot,
                   try_count, runs, first, rounds, exit_by>>

\* one pass of the for loop of lines 718-722 over the functions fs
RECURSIVE TaintPass(_, _, _, _)
TaintPass(m, sk, fs, st) ==
    IF fs = <<>> \/ st.div THEN st
    ELSE TaintPass(m, sk, Tail(fs),
                   IF is_taint_src(Head(fs)) THEN st
                   ELSE taint_bcast_sink_args(m, sk, Head(fs), st, {}))

\* run(), lines 715-723: one pass of the do-while loop.  An insertion into
\* m_taint_funcs while the range-for iterates it is undefined: the loop goes
\* on over the elements it started with, or the run crashes.
TaintLoop ==
    /\ pc = "taint_loop"
    /\ LET r == TaintPass(mod, sink, m_taint_funcs, TaintSt(taint, m_taint_funcs))
           grew == Len(r.tf) # Len(m_taint_funcs)
       IN  /\ taint' = r.taint
           /\ m_taint_funcs' = r.tf
           /\ \E outcome \in (IF grew THEN {"goes on", "crashes"} ELSE {"goes on"}) :
                /\ pc' = IF r.div \/ outcome = "crashes" THEN "aborted"
                         ELSE IF grew THEN pc ELSE "backedges"
                /\ abort_by' = IF r.div THEN "endless recursion"
                               ELSE IF outcome = "crashes" THEN "invalid iterator"
                               ELSE abort_by
    /\ UNCHANGED <<promotion, mod, sink, err, m_func2tsrc, rangeState, rangeSetup, snapshot,
                   try_count, idx, runs, first, rounds, exit_by>>

RECURSIVE BackEdgesOf(_, _, _)
BackEdgesOf(m, fs, be) ==
    IF fs = <<>> THEN be
    ELSE BackEdgesOf(m, Tail(fs),
                     IF isDeclaration(m, Head(fs)) THEN be
                     ELSE backedge_analysis(m, Head(fs), be))

\* run(), lines 728-732
BackEdges ==
    /\ pc = "backedges"
    /\ m_backedges' = BackEdgesOf(mod, mod.funcs, m_backedges)
    /\ pc' = "init_ranges"
    /\ UNCHANGED <<promotion, ir, taintState, rangeState, m_range_analysis_funcs, m_garr2ranges,
                   snapshot, try_count, idx, ghost>>

\* run(), line 734: init_ranges(M)
InitRanges ==
    /\ pc = "init_ranges"
    /\ LET S == InitFuncs(mod, m_taint_funcs,
                          [info |-> m_func2range_info, ret |-> m_func2ret_range,
                           funcs |-> m_range_analysis_funcs, ub |-> FALSE], mod.funcs)
           G == InitGlobals(mod, [glb |-> m_global2range, garr |-> m_garr2ranges,
                                  ub |-> FALSE], mod.globals)
       IN  /\ m_func2range_info' = S.info
           /\ m_func2ret_range' = S.ret
           /\ m_range_analysis_funcs' = S.funcs
           /\ m_global2range' = G.glb
           /\ m_garr2ranges' = G.garr
           /\ \E build \in (IF S.ub \/ G.ub THEN {"NDEBUG", "assertions"} ELSE {"NDEBUG"}) :
                /\ pc' = IF build = "assertions" THEN "aborted" ELSE "round_begin"
                /\ abort_by' = IF build = "assertions" THEN "assertion" ELSE abort_by
    /\ UNCHANGED <<promotion, ir, taintState, m_backedges, m_impossible_branches, m_gep_oob,
                   snapshot, try_count, idx, runs, first, rounds, exit_by>>

\* run(), lines 736-738: the snapshots of one iteration
RoundBegin ==
    /\ pc = "round_begin"
    /\ old_fn_rng' = m_func2range_info
    /\ old_glb_rng' = m_global2range
    /\ old_fn_ret_rng' = m_func2ret_range
    /\ pc' = IF m_range_analysis_funcs = <<>> THEN "round_end" ELSE "range"
    /\ idx' = 1
    /\ UNCHANGED <<promotion, ir, taintState, rangeState, rangeSetup, try_count, ghost>>

RangeSt ==
    [info |-> m_func2range_info, glb |-> m_global2range, ret |-> m_func2ret_range,
     dead |-> m_impossible_branches, oob |-> m_gep_oob, abort |-> FALSE]

\* run(), lines 740-742: range_analysis of one function
RangeStep ==
    /\ pc = "range"
    /\ \E R \in {range_analysis(mod, m_backedges, RangeSt, m_garr2ranges,
                                  m_range_analysis_funcs[idx])} :
           /\ m_func2range_info' = R.info
           /\ m_global2range' = R.glb
           /\ m_func2ret_range' = R.ret
           /\ m_impossible_branches' = R.dead
           /\ m_gep_oob' = R.oob
           /\ IF R.abort THEN pc' = "aborted" /\ idx' = idx
              ELSE IF idx < Len(m_range_analysis_funcs) THEN pc' = pc /\ idx' = idx + 1
              ELSE pc' = "round_end" /\ idx' = 1
           /\ abort_by' = IF R.abort THEN "MKINT_CHECK_ABORT" ELSE abort_by
    /\ UNCHANGED <<promotion, ir, taintState, rangeSetup, snapshot, try_count, runs, first, rounds,
                   exit_by>>

Stable ==
    /\ m_func2range_info = old_fn_rng
    /\ old_glb_rng = m_global2range
    /\ old_fn_ret_rng = m_func2ret_range

\* a loop that gives up after its second round
CapAfterTwo(tc) == tc > 2

\* run(), line 749: the value of ++try_count against the cap
CapReached(tc) == tc > max_try

\* run(), lines 744-750: the two exits of the loop
RoundEnd ==
    /\ pc = "round_end"
    /\ rounds' = rounds + 1
    /\ IF Stable
       THEN pc' = "mark_errors" /\ exit_by' = "equal" /\ try_count' = try_count
       ELSE /\ try_count' = try_count + 1
            /\ IF CapReached(try_count + 1)
               THEN pc' = "mark_errors" /\ exit_by' = "cap"
               ELSE pc' = "round_begin" /\ exit_by' = exit_by
    /\ UNCHANGED <<promotion, ir, taintState, rangeState, rangeSetup, snapshot, idx, runs, first,
                   abort_by>>

\* run(), line 754: mark_errors()
MarkErrors ==
    /\ pc = "mark_errors"
    /\ err' = mark_errors(err, m_impossible_branches, m_gep_oob)
    /\ first' = IF runs = 1 THEN <<taint, sink, err'>> ELSE first
    /\ pc' = "done"
    /\ UNCHANGED <<promotion, mod, taint, sink, taintState, rangeState, rangeSetup, snapshot,
                   try_count, idx, runs, rounds, exit_by, abort_by>>

\* the pass is run again, by a fresh MKintPass, on the module the first run left
RunAgain ==
    /\ pc = "done"
    /\ runs = 1
    /\ runs' = 2
    /\ m_func2tsrc' = <<>>
    /\ m_taint_funcs' = <<>>
    /\ m_backedges' = EmptyMap
    /\ m_func2range_info' = EmptyMap
    /\ m_func2ret_range' = EmptyMap
    /\ m_range_analysis_funcs' = <<>>
    /\ m_global2range' = EmptyMap
    /\ m_garr2ranges' = EmptyMap
    /\ m_impossible_branches' = EmptyMap
    /\ m_gep_oob' = {}
    /\ try_count' = 0
    /\ old_fn_rng' = EmptyMap
    /\ old_glb_rng' = EmptyMap
    /\ old_fn_ret_rng' = EmptyMap
    /\ pc' = "mark_sources"
    /\ idx' = 1
    /\ rounds' = 0
    /\ exit_by' = "none"
    /\ UNCHANGED <<promotion, ir, first, abort_by>>

Next ==
    \/ MarkSources
    \/ BcastSource
    \/ TaintLoop
    \/ BackEdges
    \/ InitRanges
    \/ RoundBegin
    \/ RangeStep
    \/ RoundEnd
    \/ MarkErrors
    \/ RunAgain

Spec == Init /\ [][Next]_vars

\* ------------------------------------------------- auto_promote on its own
\* the widths and the bounds of the intervals auto_promote is applied to
Widths == {1, 8, 16}
MaxBound == 3
PromoteRanges ==
    UNION {{Full(w), Empty(w)} \cup
           {CR(w, p[1], p[2]) : p \in {q \in (0..MaxBound) \X (0..MaxBound) :
                                          q[1] # q[2] /\ q[1] < Pow2(w) /\ q[2] < Pow2(w)}}
           : w \in Widths}

PromoteInit ==
    /\ promotion \in [lhs : PromoteRanges, rhs : PromoteRanges, ret : {<<>>}]
    /\ mod = Mod(<<>>, EmptyMap, EmptyMap, EmptyMap, <<>>, EmptyMap, EmptyMap)
    /\ taint = EmptyMap
    /\ sink = EmptyMap
    /\ err = EmptyMap
    /\ runs = 1
    /\ first = <<>>
    /\ FreshPass

\* auto_promote(lhs, rhs), lines 177-185
Promote ==
    /\ promotion.ret = <<>>
    /\ promotion' = [promotion EXCEPT !.ret = auto_promote(promotion.lhs, promotion.rhs)]
    /\ UNCHANGED <<ir, taintState, rangeState, rangeSetup, snapshot, try_count, pc, idx,
                   ghost>>

PromoteSpec == PromoteInit /\ [][Promote]_vars

\* run() has neither returned nor been aborted
Running == pc \notin {"done", "aborted"}

\* run() is sequential code: while it is running it takes its next step.  This
\* is weak fairness of the steps of a run, its enabling condition written out
\* as the state predicate Running (Next is enabled in every Running state);
\* whether the pass is run a second time is left open.
RunIsFair == []<>(~Running) \/ []<><<Next>>_vars

FairSpec == Spec /\ RunIsFair /\ WF_vars(RoundBegin) /\ WF_vars(RoundEnd)

\* ------------------------------------------------------------------ properties
\* the loop of run() has been left by one of its two break statements
LoopExited ==
    /\ pc = "mark_errors"
    /\ \/ /\ m_func2range_info = old_fn_rng
          /\ old_glb_rng = m_global2range
          /\ old_fn_ret_rng = m_func2ret_range
       \/ try_count > max_try

\* C1: the range loop of run() terminates.  Every run that enters the loop
\* leaves it, and it leaves it only when the three maps equal the snapshots of
\* the iteration or when the cap has been passed (or the process is ended by
\* MKINT_CHECK_ABORT); it never iterates without bound.
C1_RangeLoopTerminates == (pc = "round_begin") ~> (LoopExited \/ pc = "aborted")

\* C1, witness: a module whose state never stabilises leaves the loop by the cap
C1_LeftByCap ==
    /\ pc = "mark_errors"
    /\ exit_by = "cap"
    /\ m_global2range # old_glb_rng

\* C2: in one run() the functions of m_range_analysis_funcs are analysed for
\* at most 128 rounds.
C2_AtMostMaxTryRounds == rounds <= max_try

\* the range loop of this run has ended
LoopEnded == pc \in {"mark_errors", "done"}

\* the block the branch on cmp leads to when cmp is taken
TakenSuccessor(cmp, taken) ==
    LET b == CHOOSE b \in DOMAIN mod.blk :
                 getTerminator(mod, b).op = "condbr" /\ getTerminator(mod, b).ops[1] = cmp
    IN  IF taken THEN getTerminator(mod, b).tgt[1] ELSE getTerminator(mod, b).tgt[2]

\* the final interval of v in block bb
FinalRange(bb, v) == get_range_by_bb(mod, RangeSt, v, bb)

\* C3: when the range loop has ended, every compare recorded in
\* m_impossible_branches with the value true has an operand whose refined
\* interval in the true successor is empty in the final state, and every one
\* recorded with false has one in the false successor; an entry written in
\* an early round does not survive non-empty final intervals.
C3_DeadBranchHasEmptyOperand ==
    LoopEnded =>
        \A cmp \in DOMAIN m_impossible_branches :
            \E v \in Range(mod.ins[cmp].ops) :
                IsEmptySet(FinalRange(TakenSuccessor(cmp, m_impossible_branches[cmp]), v))

\* C4: when the range loop has ended, the unsigned maximum of the final
\* interval of the index of every GEP in m_gep_oob is at least the length of
\* the indexed global array.
C4_OobIndexReachesLength ==
    LoopEnded =>
        \A gep \in m_gep_oob :
            GetUnsignedMax(FinalRange(ParentBlock(mod, gep), mod.ins[gep].ops[3]))
                >= Len(m_garr2ranges[mod.ins[gep].ops[1]])

\* taint propagation of this run has ended
TaintDone ==
    pc \in {"backedges", "init_ranges", "round_begin", "range", "round_end",
            "mark_errors", "done"}

\* the instructions one step forward of inst: the users of its result and,
\* when interprocedural, also the other users of the global a store writes
\* and the users of the arguments of the defined function a call calls
ForwardEdges(inst, interprocedural) ==
    Range(Users(mod, inst))
    \cup (IF interprocedural /\ mod.ins[inst].op = "store"
             /\ IsGlobalVariable(mod, mod.ins[inst].ops[2])
          THEN Range(Users(mod, mod.ins[inst].ops[2])) \ {inst} ELSE {})
    \cup (IF interprocedural /\ mod.ins[inst].op = "call"
             /\ ~isDeclaration(mod, mod.ins[inst].aux)
          THEN UNION {Range(Users(mod, a)) : a \in Range(mod.fn[mod.ins[inst].aux].args)}
          ELSE {})

RECURSIVE ForwardClosure(_, _)
ForwardClosure(S, interprocedural) ==
    LET T == S \cup UNION {ForwardEdges(i, interprocedural) : i \in S}
    IN  IF T = S THEN S ELSE ForwardClosure(T, interprocedural)

ReachesSink(inst, interprocedural) ==
    \E u \in ForwardClosure({inst}, interprocedural) : Has(sink, u)

TaintedInsts == {i \in DOMAIN taint : IsInstruction(mod, i)}

\* C5, as stated: after taint propagation every instruction annotated TAINT
\* has a path over the users of its own result to an instruction annotated
\* SINK, a call to a function with a body included.
C5_TaintReachesSinkByUsers ==
    TaintDone => \A i \in TaintedInsts : ReachesSink(i, FALSE)

\* C5, amended: after taint propagation every instruction annotated TAINT
\* has a path to an instruction annotated SINK over the edges the propagator
\* follows: the users of a result, the other users of the global a store
\* writes, and the users of the arguments of a called function with a body.
C5_TaintReachesSink ==
    TaintDone => \A i \in TaintedInsts : ReachesSink(i, TRUE)

\* C5, witness: a tainted call whose only way to a sink is through its callee
C5_TaintedThroughCallee ==
    /\ TaintDone
    /\ \E i \in TaintedInsts :
          /\ mod.ins[i].op = "call"
          /\ ~ReachesSink(i, FALSE)
          /\ ReachesSink(i, TRUE)

\* the synthetic source calls of this run
SourceCalls == UNION {Range(m_func2tsrc[i][2]) : i \in DOMAIN m_func2tsrc}

\* the sink calls that take instruction s as their sink-relevant argument
SinkCallsOf(s) ==
    {c \in Range(Users(mod, s)) : SinkOfCall(mod, c) # <<>> /\ SinkOfCall(mod, c)[1] = s}

\* the instructions on a chain of users from src to s, both ends included
OnChain(src, s) ==
    {i \in ForwardClosure({src}, FALSE) : s \in ForwardClosure({i}, FALSE)}

\* C6: when a synthetic source call reaches, through a chain of users, the
\* sink-relevant argument of a sink call, then after taint propagation the
\* source call, every instruction of the chain and the argument itself carry
\* TAINT, the argument carries SINK(name), and the sink callee is in
\* m_taint_funcs.
C6_SourceChainAndSinkArgTainted ==
    TaintDone =>
        \A src \in SourceCalls : \A s \in ForwardClosure({src}, FALSE) :
            \A c \in SinkCallsOf(s) :
                /\ \A i \in OnChain(src, s) : Has(taint, i)
                /\ Has(sink, s) /\ sink[s] = Demangle(mod.ins[c].aux)
                /\ mod.ins[c].aux \in Range(m_taint_funcs)

\* C7: in every state of the range analysis, every key v of every block map
\* of m_func2range_info is an integer value and the interval stored for it
\* has the integer bit-width of v, entries made by store tracking, by the
\* widening of callee arguments and by the final union included.
C7_StoredWidthIsValueWidth ==
    \A bb \in DOMAIN m_func2range_info : \A v \in DOMAIN m_func2range_info[bb] :
        /\ IsIntegerTy(TypeOf(mod, v))
        /\ m_func2range_info[bb][v].bw = IntegerBitWidth(TypeOf(mod, v))

\* the function range_analysis has just been applied to, if any
JustAnalysed ==
    IF pc = "round_end" /\ m_range_analysis_funcs # <<>>
    THEN {m_range_analysis_funcs[Len(m_range_analysis_funcs)]}
    ELSE IF pc = "range" /\ idx > 1 THEN {m_range_analysis_funcs[idx - 1]}
    ELSE {}

\* the predicate the specification gives for operand number n of
\* ICmp(p, L, R) on the edge to the true or the false successor
StatedPredicate(p, n, is_true_br) ==
    IF n = 1 THEN (IF is_true_br THEN p ELSE InversePred(p))
    ELSE (IF is_true_br THEN SwappedPred(p) ELSE SwappedPred(InversePred(p)))

\* what block bb held for v when the round began
HeldBefore(bb, v) ==
    IF Has(old_fn_rng, bb) /\ Has(old_fn_rng[bb], v) THEN old_fn_rng[bb][v]
    ELSE Empty(IntegerBitWidth(TypeOf(mod, v)))

\* the blocks of f whose only predecessor ends in a branch on a compare
BranchTargets(f) ==
    {bb \in Range(mod.fn[f].blocks) :
        /\ Len(predecessors(mod, bb)) = 1
        /\ predecessors(mod, bb)[1] \notin m_backedges[bb]
        /\ getTerminator(mod, predecessors(mod, bb)[1]).op = "condbr"
        /\ NarrowedInsts(mod, predecessors(mod, bb)[1]) # {}}

\* C8: for a predecessor P of B that ends in a conditional branch on
\* ICmp(p, L, R), the interval recorded in B for each operand that is no
\* constant is its interval in P cut to the allowed region of the outcome
\* that leads to B, joined with what B held: on the true edge L uses p
\* against R and R the swapped p against L, on the false edge L uses the
\* inverse of p and R the swapped inverse of p.
C8_RecordedIsStatedRefinement ==
    \A f \in JustAnalysed : \A bb \in BranchTargets(f) :
        LET P == predecessors(mod, bb)[1]
            br == getTerminator(mod, P)
            cmp == mod.ins[br.ops[1]]
        IN  \A n \in {1, 2} :
                IsConstantInt(mod, cmp.ops[n])
                \/ FinalRange(bb, cmp.ops[n])
                     = UnionWith(
                         IntersectWith(FinalRange(P, cmp.ops[n]),
                                       CmpRegion(StatedPredicate(cmp.aux, n, br.tgt[1] = bb),
                                                 FinalRange(P, cmp.ops[3 - n]))),
                         HeldBefore(bb, cmp.ops[n]))

\* the integer loads of f whose address is no global variable
OtherLoads(f) ==
    {i \in Range(FuncInsts(mod, f)) :
        /\ mod.ins[i].op = "load"
        /\ IsIntegerTy(mod.ins[i].ty)
        /\ ~IsGlobalVariable(mod, mod.ins[i].ops[1])}

\* C9: the interval computed for an integer load whose address is no scalar
\* global variable (a GEP into a global array, a GEP into anything else, any
\* other pointer) is the full range of the width of the result.
C9_OtherLoadIsFull ==
    \A f \in JustAnalysed : \A i \in OtherLoads(f) :
        FinalRange(ParentBlock(mod, i), i) = Full(IntegerBitWidth(mod.ins[i].ty))

\* C10: a second run of the pass, on the module the first run left, leaves
\* exactly the TAINT, SINK and ERR annotations the first run left.
C10_SecondRunSameAnnotations ==
    (pc = "done" /\ runs = 2) => <<taint, sink, err>> = first

\* the Return instructions of function f
Returns(f) == {i \in Range(FuncInsts(mod, f)) : mod.ins[i].op = "ret"}

\* C11: once the functions have been marked, every Return instruction of a
\* function F carries SINK("return") if and only if F is a source, F returns
\* an integer, and some instruction that uses F lies in a function that is
\* no source.
C11_ReturnSinkIff ==
    (pc # "mark_sources") =>
        \A f \in DOMAIN mod.fn : \A i \in Returns(f) :
            (Has(sink, i) /\ sink[i] = "return")
            <=> /\ is_taint_src(f)
                /\ IsIntegerTy(mod.fn[f].ret)
                /\ \E u \in Range(FuncUsers(mod, f)) : ~is_taint_src(ParentFunc(mod, u))

\* C11, witness: the return of a source called from a function that is no
\* source is a sink
C11_ReturnOfCalledSourceIsSink ==
    /\ pc = "backedges"
    /\ \E f \in DOMAIN mod.fn : \E i \in Returns(f) :
          /\ Has(sink, i) /\ sink[i] = "return"
          /\ FuncUsers(mod, f) # <<>>

\* the calls of f to functions that return an integer
IntegerCalls(f) ==
    {c \in Range(FuncInsts(mod, f)) :
        mod.ins[c].op = "call" /\ IsIntegerTy(mod.fn[mod.ins[c].aux].ret)}

\* the range loop of this run has ended by equality with the snapshots
FixedPoint == LoopEnded /\ exit_by = "equal"

\* C12: when the range loop ends by snapshot equality, m_func2ret_range[F]
\* of every analysed function F that returns an integer contains the interval
\* of every value F returns, and the interval of every call in an analysed
\* function to a function g that returns an integer is m_func2ret_range[g];
\* for g(y) = y + 1 and f() = g(k) both summaries contain k + 1, in either
\* order of f and g.
C12_ReturnSummariesPropagated ==
    FixedPoint =>
        /\ \A f \in Range(m_range_analysis_funcs) :
              /\ IsIntegerTy(mod.fn[f].ret) =>
                    \A i \in Returns(f) :
                        Gamma(FinalRange(ParentBlock(mod, i), mod.ins[i].ops[1]))
                            \subseteq Gamma(m_func2ret_range[f])
              /\ \A c \in IntegerCalls(f) :
                    FinalRange(ParentBlock(mod, c), c) = m_func2ret_range[mod.ins[c].aux]
        /\ \A k \in 0..MaxK : \A calleeFirst \in BOOLEAN :
              mod = ModSummary(k, calleeFirst, "g", "f") =>
                  /\ Contains(m_func2ret_range["g"], k + 1)
                  /\ Contains(m_func2ret_range["f"], k + 1)

\* C12, witness: the fixed point of f() = g(k) with the caller f analysed
\* before the callee g
C12_CallerFirstFixedPoint ==
    /\ FixedPoint
    /\ \E k \in 0..MaxK : mod = ModSummary(k, FALSE, "g", "f")
    /\ ~IsEmptySet(m_func2ret_range["f"])
    /\ FinalRange("f.entry", "f.r") = m_func2ret_range["g"]

\* the integer arguments of f that have a use in module m, when f is a source
UsedSourceArgs(m, f) ==
    IF is_taint_src(f)
    THEN {a \in Range(m.fn[f].args) :
             IsIntegerTy(m.argty[a]) /\ \E i \in DOMAIN m.ins : a \in Range(m.ins[i].ops)}
    ELSE {}

\* module n is module m with the arguments A of function f rewritten: one new
\* call and one new declaration for each argument of A, the calls put in
\* front of the entry block of f, every use of an argument of A redirected to
\* its call, and nothing else added, removed or changed
IsRewriting(m, n, f, A) ==
    /\ A # {}
    /\ n.globals = m.globals /\ n.glob = m.glob
    /\ n.argty = m.argty /\ n.const = m.const
    \* the declarations
    /\ Len(n.funcs) = Len(m.funcs) + Cardinality(A)
    /\ SubSeq(n.funcs, 1, Len(m.funcs)) = m.funcs
    /\ DOMAIN n.fn = DOMAIN m.fn \cup Range(n.funcs)
    /\ \A g \in DOMAIN m.fn : n.fn[g] = m.fn[g]
    /\ \A g \in DOMAIN n.fn \ DOMAIN m.fn : n.fn[g].blocks = <<>> /\ n.fn[g].args = <<>>
    \* the calls
    /\ DOMAIN n.ins = DOMAIN m.ins \cup {ArgCallInst(a) : a \in A}
    /\ Cardinality(DOMAIN n.ins) = Cardinality(DOMAIN m.ins) + Cardinality(A)
    /\ \A a \in A :
          /\ n.ins[ArgCallInst(a)].op = "call"
          /\ n.ins[ArgCallInst(a)].ops = <<>>
          /\ n.ins[ArgCallInst(a)].ty = m.argty[a]
          /\ n.ins[ArgCallInst(a)].aux \in DOMAIN n.fn \ DOMAIN m.fn
          /\ n.fn[n.ins[ArgCallInst(a)].aux].ret = m.argty[a]
    \* the instructions there were
    /\ \A i \in DOMAIN m.ins :
          /\ n.ins[i].op = m.ins[i].op /\ n.ins[i].ty = m.ins[i].ty
          /\ n.ins[i].aux = m.ins[i].aux /\ n.ins[i].tgt = m.ins[i].tgt
          /\ DOMAIN n.ins[i].ops = DOMAIN m.ins[i].ops
          /\ \A j \in DOMAIN m.ins[i].ops :
                n.ins[i].ops[j] = IF m.ins[i].ops[j] \in A
                                  THEN ArgCallInst(m.ins[i].ops[j]) ELSE m.ins[i].ops[j]
    \* the blocks
    /\ DOMAIN n.blk = DOMAIN m.blk
    /\ \A b \in DOMAIN m.blk :
          IF b = getEntryBlock(m, f)
          THEN /\ Len(n.blk[b]) = Len(m.blk[b]) + Cardinality(A)
               /\ SubSeq(n.blk[b], Cardinality(A) + 1, Len(n.blk[b])) = m.blk[b]
               /\ Range(SubSeq(n.blk[b], 1, Cardinality(A))) = {ArgCallInst(a) : a \in A}
          ELSE n.blk[b] = m.blk[b]

\* C13: a step of run() changes the module (metadata apart) only by the
\* rewriting of the used integer arguments of a source function: one new call
\* and its declaration for each such argument, its uses redirected, no other
\* instruction, operand, block or edge added, removed or changed; and every
\* such step is taken before any step of range_analysis.
C13_ModuleChangedOnlyByRewriting ==
    [][mod' # mod =>
          /\ pc = "mark_sources"
          /\ rounds = 0 /\ m_func2range_info = EmptyMap /\ m_range_analysis_funcs = <<>>
          /\ IsRewriting(mod, mod', mod.funcs[idx], UsedSourceArgs(mod, mod.funcs[idx]))]_vars

\* C13, witness: the range analysis runs on a module whose source argument
\* has been rewritten to a call
C13_AnalysedAfterRewriting ==
    /\ pc = "range"
    /\ \E f \in DOMAIN mod.fn : \E a \in Range(mod.fn[f].args) :
          /\ is_taint_src(f)
          /\ Has(mod.ins, ArgCallInst(a))
          /\ \E i \in DOMAIN mod.ins : ArgCallInst(a) \in Range(mod.ins[i].ops)

\* the blocks one successor edge after a block of S
SuccsOf(S) == UNION {Range(successors(mod, b)) : b \in S}

\* the least set that holds S and the successors of its members
RECURSIVE SuccClosure(_)
SuccClosure(S) == IF SuccsOf(S) \subseteq S THEN S ELSE SuccClosure(S \cup SuccsOf(S))

\* the blocks reachable from bb by one or more successor edges
ReachableFrom(bb) == SuccClosure(SuccsOf({bb}))

\* backedge_analysis has been applied to the functions of this run
BackEdgesDone ==
    pc \in {"init_ranges", "round_begin", "range", "round_end", "mark_errors", "done"}

\* C14: after backedge_analysis, m_backedges[B] of every block B is exactly
\* the set of the blocks reachable from B by one or more successor edges
\* without B itself, also when B lies on a cycle.
C14_BackEdgesAreReachableBlocks ==
    BackEdgesDone =>
        \A b \in DOMAIN mod.blk :
            /\ Has(m_backedges, b)
            /\ m_backedges[b] = ReachableFrom(b) \ {b}

\* C14, witness: a block of a loop reaches itself and is no member of its own
\* set, which holds the other blocks of the cycle
C14_BlockOnCycle ==
    /\ pc = "init_ranges"
    /\ \E b \in DOMAIN mod.blk : \E h \in DOMAIN mod.blk :
          /\ b \in ReachableFrom(b) /\ b \notin m_backedges[b]
          /\ h # b /\ h \in m_backedges[b] /\ b \in m_backedges[h]

\* the function range_analysis was last applied to, whether it returned or
\* was ended by MKINT_CHECK_ABORT
LastAnalysed ==
    IF pc = "aborted" /\ abort_by = "MKINT_CHECK_ABORT" THEN {m_range_analysis_funcs[idx]}
    ELSE JustAnalysed

\* the switch edges P -> B of f the merge of B does not skip: <<P, B>>
SwitchEdges(f) ==
    {e \in Range(mod.fn[f].blocks) \X Range(mod.fn[f].blocks) :
        /\ getTerminator(mod, e[1]).op = "switch"
        /\ IsIntegerTy(TypeOf(mod, getTerminator(mod, e[1]).ops[1]))
        /\ e[2] \in Range(successors(mod, e[1]))
        /\ e[1] \notin m_backedges[e[2]]}

\* C15: for a predecessor P of B, no back edge, that ends in a switch on an
\* integer val, the first visit of B leaves in B for val the union of the
\* interval of val in P with emp, the inverse of the union of all the case
\* constants when B is the default destination and the union of the case
\* constants that lead to B otherwise; the merge is defined although B held
\* no entry for val.
C15_SwitchMergeReadsPredecessor ==
    rounds = 0 =>
        \A f \in LastAnalysed : \A e \in SwitchEdges(f) :
            LET val == getTerminator(mod, e[1]).ops[1] IN
            /\ abort_by = "none"
            /\ Has(m_func2range_info, e[2]) /\ Has(m_func2range_info[e[2]], val)
            /\ m_func2range_info[e[2]][val]
                 = UnionWith(FinalRange(e[1], val),
                             SwitchRegion(mod, getTerminator(mod, e[1]), e[2]))

\* the loads of f whose address is a scalar integer global
GlobalLoads(f) ==
    {i \in Range(FuncInsts(mod, f)) :
        /\ mod.ins[i].op = "load"
        /\ IsGlobalVariable(mod, mod.ins[i].ops[1])
        /\ mod.glob[mod.ins[i].ops[1]].kind = "int"}

\* C16: the interval of every load whose address is a scalar global g is
\* m_global2range[g], the summary of every store to g in an analysed
\* function, also when the block of the load or a predecessor of it holds an
\* earlier store to g whose value was recorded under the key g in the map of
\* the block.  Stated where nothing changes any more, at the fixed point.
C16_GlobalLoadReadsSummary ==
    FixedPoint =>
        \A f \in Range(m_range_analysis_funcs) : \A i \in GlobalLoads(f) :
            FinalRange(ParentBlock(mod, i), i) = m_global2range[mod.ins[i].ops[1]]

\* the larger of two widths
LargerWidth(a, b) == IF a.bw >= b.bw THEN a.bw ELSE b.bw

\* C17: auto_promote(lhs, rhs) returns two intervals of the larger of the two
\* widths: the narrower one zero-extended to that width, the wider one
\* unchanged, both unchanged when the widths agree.
C17_PromotedToLargerWidth ==
    (promotion # <<>> /\ promotion.ret # <<>>) =>
        LET w == LargerWidth(promotion.lhs, promotion.rhs) IN
        /\ promotion.ret[1].bw = w /\ promotion.ret[2].bw = w
        /\ promotion.ret[1] = zextOrTrunc(promotion.lhs, w)
        /\ promotion.ret[2] = zextOrTrunc(promotion.rhs, w)

\* init_ranges has returned and the range loop has not begun
RangesInitialised == pc = "round_begin" /\ rounds = 0

\* C18: after init_ranges, m_range_analysis_funcs holds exactly the functions
\* with a body that return an integer or are in m_taint_funcs, and so no
\* function without a body; m_func2ret_range[F] of each of them that returns
\* an integer is the empty interval of the return width; each integer
\* argument of each of them is, in the state of the entry block, the full
\* interval of its width if F is a source and the empty one otherwise.
C18_InitRangesSeeds ==
    RangesInitialised =>
        /\ Range(m_range_analysis_funcs)
             = {f \in DOMAIN mod.fn :
                   /\ ~isDeclaration(mod, f)
                   /\ IsIntegerTy(mod.fn[f].ret) \/ f \in Range(m_taint_funcs)}
        /\ Len(m_range_analysis_funcs) = Cardinality(Range(m_range_analysis_funcs))
        /\ \A f \in Range(m_range_analysis_funcs) :
              /\ ~isDeclaration(mod, f)
              /\ IsIntegerTy(mod.fn[f].ret) =>
                    /\ Has(m_func2ret_range, f)
                    /\ m_func2ret_range[f] = Empty(IntegerBitWidth(mod.fn[f].ret))
              /\ \A a \in Range(mod.fn[f].args) :
                    IsIntegerTy(mod.argty[a]) =>
                        /\ Has(m_func2range_info, getEntryBlock(mod, f))
                        /\ Has(m_func2range_info[getEntryBlock(mod, f)], a)
                        /\ m_func2range_info[getEntryBlock(mod, f)][a]
                             = IF is_taint_src(f) THEN Full(IntegerBitWidth(mod.argty[a]))
                               ELSE Empty(IntegerBitWidth(mod.argty[a]))

\* C18, witness: after init_ranges a source that returns no integer is
\* registered through m_taint_funcs with its argument seeded full, while a
\* function without a body is in m_taint_funcs
C18_TaintFuncRegistered ==
    /\ RangesInitialised
    /\ \E f \in Range(m_range_analysis_funcs) :
          /\ ~IsIntegerTy(mod.fn[f].ret) /\ is_taint_src(f)
          /\ \E a \in Range(mod.fn[f].args) :
                m_func2range_info[getEntryBlock(mod, f)][a] = Full(8)
    /\ \E f \in Range(m_taint_funcs) : isDeclaration(mod, f)

\* C19: taint propagation terminates on every module: every call of
\* is_sink_reachable returns after finitely many recursive calls, also when
\* the users graph has a cycle (a loop phi and the instruction that feeds
\* it), when two stores write the same global, and when a call targets a
\* recursive function with a body; no run of the pass ends inside a recursion
\* of is_sink_reachable that never returns.
C19_TaintPropagationReturns == abort_by # "endless recursion"

\* the control flow graph of f has a cycle
HasLoop(f) == \E b \in Range(mod.fn[f].blocks) : b \in ReachableFrom(b)

\* C20: in range_analysis of a function whose control flow graph has a loop
\* every operand lookup succeeds: the abort 'Unknown operand type' is never
\* reached, because for each block B reachable from the entry at least one
\* predecessor of B is merged, that is, not every predecessor of B is a
\* member of m_backedges[B].
C20_LoopOperandsFound ==
    /\ \A f \in LastAnalysed : HasLoop(f) => abort_by # "MKINT_CHECK_ABORT"
    /\ BackEdgesDone =>
          \A f \in DOMAIN mod.fn :
              (~isDeclaration(mod, f) /\ HasLoop(f)) =>
                  \A b \in ReachableFrom(getEntryBlock(mod, f)) :
                      \E p \in Range(predecessors(mod, b)) : p \notin m_backedges[b]

\* the functions without a body that init_ranges selects
SelectedDeclarations ==
    {f \in DOMAIN mod.fn :
        /\ isDeclaration(mod, f)
        /\ IsIntegerTy(mod.fn[f].ret) \/ f \in Range(m_taint_funcs)}

\* the scalar integer globals without an initializer
UninitialisedGlobals ==
    {g \in DOMAIN mod.glob : mod.glob[g].kind = "int" /\ mod.glob[g].init = <<>>}

\* C21: every interval init_ranges creates is built from the bit-width of an
\* integer type: the full interval of a selected function without a body
\* (integer return type, or member of m_taint_funcs such as the sink callee
\* kzalloc) has the width of an integer return type, the full interval of a
\* scalar integer global without initializer has the width of the integer
\* value type of the global, and init_ranges never asks a type that is no
\* integer type for an integer bit-width.
C21_InitRangesWidthsOfIntegerTypes ==
    /\ abort_by # "assertion"
    /\ RangesInitialised =>
          /\ \A f \in SelectedDeclarations :
                /\ IsIntegerTy(mod.fn[f].ret)
                /\ m_func2ret_range[f] = Full(IntegerBitWidth(mod.fn[f].ret))
          /\ \A g \in UninitialisedGlobals :
                m_global2range[g] = Full(IntegerBitWidth(mod.glob[g].ty))
====
